---- MODULE Spec2Model ----
(***************************************************************************)
(* Round Analytics Engine of mines-tracker.                                *)
(*                                                                         *)
(* Two stateless components are modelled:                                  *)
(*   - the Payout Table Generator, get_payout_table of backend/api/main.py *)
(*   - the Statistics Calculator, GridGameCalculator of                    *)
(*     backend/api/game_stats.py, and GridGameStatsService.get_statistics  *)
(*     that calls it                                                       *)
(*                                                                         *)
(* Every call is a pure function of its arguments, so the state is one     *)
(* pending request and the response it produced.  Init draws the request   *)
(* from bounded sets; one action per operation computes the response       *)
(* (specification Spec).  SessionSpec is a sequence of calls on one        *)
(* calculator.                                                             *)
(*                                                                         *)
(* The data collector, MinesCollector of                                   *)
(* backend/collector/mines_collector.py, keeps state: MessageSpec is its   *)
(* handling of WebSocket frames and its saves, RunSpec its collection loop *)
(* with stop(), RunFairSpec the same loop under fair scheduling.  Each     *)
(* specification holds the variables of the others at their initial        *)
(* values.                                                                 *)
(*                                                                         *)
(* Number representation.  Python floats are modelled by exact rationals   *)
(* and fixed-point integers:                                               *)
(*   - percentages and 2-decimal values are integers in hundredths         *)
(*     (88.00 % is 8800, a multiplier 1.10 is 110);                        *)
(*   - 4-decimal values are integers in ten-thousandths;                   *)
(*   - an input multiplier is an integer number of hundredths.             *)
(* round(x, 2) is rounding of the exact rational to the nearest hundredth. *)
(* Where the exact value lies exactly half way between two hundredths the  *)
(* float result depends on the binary representation error of the          *)
(* operands (0.97 is not a double), so the payout table takes either       *)
(* neighbour there; away from such ties the float error (about 1e-16       *)
(* relative) is far below the distance to the nearest tie, so the rounded  *)
(* value is the one computed here.                                         *)
(* The danger drops of analyze_chicken_road_lanes are differences of two   *)
(* rounded rates that are compared with each other, so there the doubles   *)
(* are computed bit for bit (section Chicken Road lanes).                  *)
(***************************************************************************)
EXTENDS Integers, Sequences, FiniteSets, TLC

VARIABLES request, response

\* A session of calls on one GridGameCalculator: the attributes of the
\* calculator object, the round collections the caller holds, the calls
\* made so far, and the direction in which the doubles of the build round
\* at the float ties of analyze_towers_floors.
VARIABLES calculator, collections, history, rounding

sessionVars == <<calculator, collections, history, rounding>>

\* The message handling of one MinesCollector: its fields current_game and
\* rounds_collected, the rows of the table mines_rounds, the save_round
\* coroutines created so far, the frames received so far, and the number
\* of round ids generated so far.
VARIABLES current_game, rounds_collected, mines_rounds, scheduled, messages,
          generated

collectorVars ==
    <<current_game, rounds_collected, mines_rounds, scheduled, messages, generated>>

\* One call of MinesCollector.run: the field running, the constructor
\* argument max_retries, the mode run() was called in, the await in which
\* the coroutine is suspended, the local retry_count, and the record of
\* what has happened (section The collection loop).
VARIABLES running, max_retries, mode, pc, retry_count, failing, attempts,
          sessions, stopped_live, outcome

runVars ==
    <<running, max_retries, mode, pc, retry_count, failing, attempts, sessions,
      stopped_live, outcome>>

vars == <<request, response, sessionVars, collectorVars, runVars>>

(***************************************************************************)
(* Bounds of the model.                                                    *)
(***************************************************************************)
\* hazard counts ExtraMines below 1 and above 24 are tried as invalid input
ExtraMines == 2

\* longest round collection handed to the calculator
MaxRounds == 3

(***************************************************************************)
(* Arithmetic helpers.                                                     *)
(***************************************************************************)
RECURSIVE GCD(_, _)
GCD(a, b) == IF b = 0 THEN a ELSE GCD(b, a % b)

\* the rational n/d in lowest terms
Frac(n, d) == LET g == GCD(n, d) IN [num |-> n \div g, den |-> d \div g]

FracMul(p, q) == Frac(p.num * q.num, p.den * q.den)

\* n/d lies exactly half way between two integers
IsTie(n, d) == 2 * (n % d) = d

\* n/d rounded to the nearest integer; an exact tie goes up iff `up`
RoundDiv(n, d, up) ==
    LET q == n \div d
        r == n % d
    IN  IF 2 * r > d \/ (2 * r = d /\ up) THEN q + 1 ELSE q

\* Python's round() of an exactly representable value: ties go to even
RoundHalfEven(n, d) == RoundDiv(n, d, (n \div d) % 2 = 1)

\* 10000 * n / d as quotient and remainder, for 0 <= n/d, by long division
\* two decimal digits at a time
Scale10000(n, d) ==
    LET q1 == (n * 100) \div d
        r1 == (n * 100) % d
        q2 == (r1 * 100) \div d
        r2 == (r1 * 100) % d
    IN  [q |-> q1 * 100 + q2, r |-> r2]

(***************************************************************************)
(* Payout Table Generator: get_payout_table, main.py 708-773.              *)
(***************************************************************************)
\* cells of the grid, the literal 25 of main.py 746 and 754
GridCells == 25

rtp_noEdge == 97 + 3
\* rtp = 0.97, in hundredths
rtp == 97

\* Query(ge=1, le=24) of the route: FastAPI answers 422 before the handler
QueryMinesValid(mines) == mines >= 1 /\ mines <= 24

MinesInRange_upper25(mines) == ~(mines < 1 \/ mines > 25)
\* the handler's own check: `if mines < 1 or mines > 24: raise ValueError`
MinesInRange(mines) == ~(mines < 1 \/ mines > 24)

GemsRange_short(gems_count) == 1 .. (gems_count - 1)
\* range(1, gems_count + 1)
GemsRange(gems_count) == 1 .. gems_count

StepFactor_loopvar(gems_count, gems, i) == [num |-> gems - i, den |-> GridCells - i]
StepFactor_den24(gems_count, gems, i) == [num |-> gems_count - i, den |-> 24 - i]
\* the factor (gems_count - i) / (25 - i) of one loop iteration
StepFactor(gems_count, gems, i) == [num |-> gems_count - i, den |-> GridCells - i]

\* prob after the iterations i = 0 .. n-1 of `for i in range(gems)`
RECURSIVE ProbAfter(_, _, _)
ProbAfter(gems_count, gems, n) ==
    IF n = 0 THEN [num |-> 1, den |-> 1]
    ELSE FracMul(ProbAfter(gems_count, gems, n - 1),
                 StepFactor(gems_count, gems, n - 1))

Prob(gems_count, gems) == ProbAfter(gems_count, gems, gems)

Multiplier_noDigits(prob, up) == 100 * RoundDiv(rtp * prob.den, 100 * prob.num, up)
\* round(rtp / prob, 2), in hundredths
Multiplier(prob, up) == RoundDiv(rtp * prob.den, prob.num, up)

\* round(prob * 100, 2), in hundredths of a percent
Probability(prob, up) ==
    LET s == Scale10000(prob.num, prob.den)
    IN  IF 2 * s.r > prob.den \/ (2 * s.r = prob.den /\ up) THEN s.q + 1 ELSE s.q

\* one of the two roundings of this entry is an exact decimal tie
EntryIsTie(gems_count, gems) ==
    LET prob == Prob(gems_count, gems)
    IN  \/ IsTie(rtp * prob.den, prob.num)
        \/ 2 * Scale10000(prob.num, prob.den).r = prob.den

\* the entries at which the float error decides the rounding
FloatTies(mines) ==
    IF MinesInRange(mines)
    THEN {gems \in GemsRange(GridCells - mines) : EntryIsTie(GridCells - mines, gems)}
    ELSE {}

\* the field constraints of PayoutInfo (main.py 168-170); a violation raises
\* pydantic's ValidationError, which is a ValueError
PayoutInfoValid(e) ==
    /\ e.gems >= 1 /\ e.gems <= 24
    /\ e.multiplier >= 0
    /\ e.probability >= 0 /\ e.probability <= 10000

PayoutInfo(gems_count, gems, up) ==
    LET prob == Prob(gems_count, gems)
    IN  [gems |-> gems,
         multiplier |-> Multiplier(prob, up),
         probability |-> Probability(prob, up)]

\* `except ValueError`: HTTPException(status_code=422, detail=str(e))
Http422(detail) == [status |-> 422, detail |-> detail, payouts |-> <<>>]

\* the handler body; tieUp is the set of entries whose tie rounds upwards
get_payout_table(mines, tieUp) ==
    IF ~MinesInRange(mines)
    THEN Http422("Mines count must be between 1 and 24")
    ELSE LET gems_count == GridCells - mines
             payouts == [gems \in GemsRange(gems_count) |->
                            PayoutInfo(gems_count, gems, gems \in tieUp)]
         IN  IF \E gems \in DOMAIN payouts : ~PayoutInfoValid(payouts[gems])
             THEN Http422("validation error for PayoutInfo")
             ELSE [status |-> 200, detail |-> "", payouts |-> payouts]

(***************************************************************************)
(* Statistics Calculator: GridGameCalculator, game_stats.py 145-411.       *)
(*                                                                         *)
(* A round is a dict: a function from the keys present to their values.    *)
(* Step counts are integers, multipliers are floats (in hundredths), the   *)
(* win flags are booleans and the risk level is a string, as in            *)
(* RiskLevel(str, Enum).                                                   *)
(***************************************************************************)
\* dict.get(key, default)
Get(r, key, default) == IF key \in DOMAIN r THEN r[key] ELSE default

RECURSIVE SeqSum(_)
SeqSum(s) == IF s = <<>> THEN 0 ELSE Head(s) + SeqSum(Tail(s))

\* max() of a non-empty list
SeqMax(s) == CHOOSE m \in {s[i] : i \in DOMAIN s} : \A i \in DOMAIN s : s[i] <= m

\* round(statistics.mean(s), 2) of integers, in hundredths
Mean2(s) == RoundHalfEven(SeqSum(s) * 100, Len(s))

\* round(statistics.mean(s), 4) of values given in hundredths, in ten-thousandths
Mean4(s) == RoundHalfEven(SeqSum(s) * 100, Len(s))

\* round(statistics.median(s), 2) of integers, in hundredths
Median2(s) ==
    LET sorted == SortSeq(s, LAMBDA a, b : a < b)
        n == Len(s)
    IN  IF n % 2 = 1 THEN sorted[(n + 1) \div 2] * 100
        ELSE (sorted[n \div 2] + sorted[n \div 2 + 1]) * 50

\* round(count / total * 100, 2), in hundredths of a percent
Rate(count, total) == RoundHalfEven(count * 10000, total)

\* a call that returned value v after `divs` division operations
Returned(method, v, divs) ==
    [method |-> method, raised |-> "", divisions |-> divs, value |-> v]

\* a call that raised the exception e
Raised(method, e) == [method |-> method, raised |-> e]

\* r.get('tiles_opened', r.get('steps', 0))
TilesOpened(r) == Get(r, "tiles_opened", Get(r, "steps", 0))

\* r.get('multiplier', 1.0)
MultiplierOf(r) == Get(r, "multiplier", 100)

\* r.get('is_win', r.get('cashout', False)), as analyze_tiles reads it
TileIsWin(r) == Get(r, "is_win", Get(r, "cashout", FALSE))

\* the cashout bands of game_stats.py 179-181
EarlyBand(t) == t <= 3

MidBand(t) == 4 <= t /\ t <= 7

LateBand_exclusive(t) == t > 8
LateBand(t) == t >= 8

\* the TileAnalysis returned for `not rounds`, game_stats.py 154-165
TileAnalysisZero ==
    [total_rounds |-> 0, avg_tiles_opened |-> 0, avg_multiplier |-> 0,
     median_tiles |-> 0, max_tiles_opened |-> 0,
     early_cashout_rate |-> 0, mid_cashout_rate |-> 0, late_cashout_rate |-> 0,
     first_tile_fail_rate |-> 0, avg_tiles_before_fail |-> 0]

\* game_stats.py 167-199
analyze_tiles_body(rounds) ==
    LET n == Len(rounds)
        tiles == [i \in DOMAIN rounds |-> TilesOpened(rounds[i])]
        multipliers == [i \in DOMAIN rounds |-> MultiplierOf(rounds[i])]
        wins == SelectSeq(rounds, TileIsWin)
        fails == SelectSeq(rounds, LAMBDA r : ~TileIsWin(r))
        winTiles == [i \in DOMAIN wins |-> TilesOpened(wins[i])]
        failTiles == [i \in DOMAIN fails |-> TilesOpened(fails[i])]
        divs == (IF n > 0 THEN 2 ELSE 0)
                + (IF n > 0 /\ n % 2 = 0 THEN 1 ELSE 0)
                + (IF wins # <<>> THEN 3 ELSE 0)
                + (IF fails # <<>> THEN 2 ELSE 0)
    IN  Returned("analyze_tiles",
          [total_rounds |-> n,
           avg_tiles_opened |-> IF n > 0 THEN Mean2(tiles) ELSE 0,
           avg_multiplier |-> IF n > 0 THEN Mean4(multipliers) ELSE 0,
           median_tiles |-> IF n > 0 THEN Median2(tiles) ELSE 0,
           max_tiles_opened |-> IF n > 0 THEN SeqMax(tiles) ELSE 0,
           early_cashout_rate |->
               IF wins # <<>> THEN Rate(Len(SelectSeq(winTiles, EarlyBand)), Len(wins)) ELSE 0,
           mid_cashout_rate |->
               IF wins # <<>> THEN Rate(Len(SelectSeq(winTiles, MidBand)), Len(wins)) ELSE 0,
           late_cashout_rate |->
               IF wins # <<>> THEN Rate(Len(SelectSeq(winTiles, LateBand)), Len(wins)) ELSE 0,
           first_tile_fail_rate |->
               IF fails # <<>>
               THEN Rate(Len(SelectSeq(failTiles, LAMBDA t : t = 1)), Len(fails)) ELSE 0,
           avg_tiles_before_fail |-> IF fails # <<>> THEN Mean2(failTiles) ELSE 0],
          divs)

\* without the early return and the `if tiles else 0` guards,
\* statistics.mean raises StatisticsError on an empty list
analyze_tiles_unguarded(rounds) ==
    IF rounds = <<>> THEN Raised("analyze_tiles", "StatisticsError")
    ELSE analyze_tiles_body(rounds)

\* GridGameCalculator.analyze_tiles, game_stats.py 148-199
analyze_tiles(rounds) ==
    IF rounds = <<>> THEN Returned("analyze_tiles", TileAnalysisZero, 0)
    ELSE analyze_tiles_body(rounds)

\* the keys of risk_data in insertion order, game_stats.py 252-254
RiskLevels == <<"easy", "medium", "hard", "extreme">>

\* str.lower() on the labels that occur
Lower(label) == IF label = "EASY" THEN "easy" ELSE label

LevelOf_defaultEasy(r) == Lower(Get(r, "risk_level", "easy"))
\* r.get('risk_level', 'medium').lower()
LevelOf(r) == Lower(Get(r, "risk_level", "medium"))

BucketsOf_defaultMedium(level) ==
    IF \E i \in DOMAIN RiskLevels : RiskLevels[i] = level THEN {level} ELSE {"medium"}
\* `if level in risk_data: risk_data[level].append(r)`
BucketsOf(level) == {RiskLevels[i] : i \in DOMAIN RiskLevels} \cap {level}

\* risk_data[level] after the loop of game_stats.py 256-259
risk_data(rounds, level) == SelectSeq(rounds, LAMBDA r : level \in BucketsOf(LevelOf(r)))

\* theoretical_rtps.get(level, 97.0), in hundredths
theoretical_rtps(level) ==
    CASE level = "easy" -> 9800
      [] level = "medium" -> 9700
      [] level = "hard" -> 9600
      [] level = "extreme" -> 9500
      [] OTHER -> 9700

EmitsBucket_always(data) == TRUE
\* `if not data: continue`
EmitsBucket(data) == data # <<>>

\* d.get('is_win', False), as analyze_risk_levels reads it
RiskIsWin(d) == Get(d, "is_win", FALSE)

\* the RiskLevelStats of one bucket, game_stats.py 274-286
RiskLevelStats(level, data) ==
    LET multipliers == [i \in DOMAIN data |-> MultiplierOf(data[i])]
        tiles == [i \in DOMAIN data |-> TilesOpened(data[i])]
        wins == SelectSeq(data, RiskIsWin)
    IN  [risk_level |-> level,
         total_rounds |-> Len(data),
         avg_multiplier |-> IF multipliers # <<>> THEN Mean4(multipliers) ELSE 0,
         success_rate |-> IF data # <<>> THEN Rate(Len(wins), Len(data)) ELSE 0,
         big_win_rate |->
             IF multipliers # <<>>
             THEN Rate(Len(SelectSeq(multipliers, LAMBDA m : m >= 500)), Len(multipliers))
             ELSE 0,
         avg_tiles_opened |-> IF tiles # <<>> THEN Mean2(tiles) ELSE 0,
         theoretical_rtp |-> theoretical_rtps(level)]

\* results after the buckets RiskLevels[1..k] of the loop, game_stats.py 269-286
RECURSIVE RiskResults(_, _)
RiskResults(rounds, k) ==
    IF k = 0 THEN <<>>
    ELSE LET level == RiskLevels[k]
             data == risk_data(rounds, level)
         IN  IF EmitsBucket(data)
             THEN Append(RiskResults(rounds, k - 1), RiskLevelStats(level, data))
             ELSE RiskResults(rounds, k - 1)

\* GridGameCalculator.analyze_risk_levels, game_stats.py 247-288
\* each emitted non-empty bucket divides four times (two means, two rates)
analyze_risk_levels(rounds) ==
    LET results == RiskResults(rounds, Len(RiskLevels))
    IN  Returned("analyze_risk_levels", results,
                 4 * Len(SelectSeq(results, LAMBDA e : e.total_rounds > 0)))

(***************************************************************************)
(* Position heatmap: analyze_mine_positions, game_stats.py 201-245.        *)
(***************************************************************************)
\* round_data.get('mine_positions', [])
MinePositions(round_data) == Get(round_data, "mine_positions", <<>>)

\* the mine positions of all rounds in the order the loops visit them
RECURSIVE PooledPositions(_)
PooledPositions(rounds) ==
    IF rounds = <<>> THEN <<>>
    ELSE MinePositions(Head(rounds)) \o PooledPositions(Tail(rounds))

\* `if 0 <= pos < grid_size`
CellInGrid(pos, grid_size) == 0 <= pos /\ pos < grid_size

\* position_counts after the loops of game_stats.py 207-215
position_counts(rounds, grid_size) ==
    [cell \in 0 .. (grid_size - 1) |->
        Len(SelectSeq(PooledPositions(rounds),
                      LAMBDA pos : CellInGrid(pos, grid_size) /\ pos = cell))]

TotalMines_all(rounds, grid_size) == Len(PooledPositions(rounds))
\* total_mines after the loops of game_stats.py 207-215
TotalMines(rounds, grid_size) ==
    Len(SelectSeq(PooledPositions(rounds), LAMBDA pos : CellInGrid(pos, grid_size)))

\* round(count / total_mines * 100, 2) if total_mines > 0 else 0
PositionFrequency(count, total_mines) ==
    IF total_mines > 0 THEN Rate(count, total_mines) ELSE 0

\* the position categories of game_stats.py 223-225
corners == <<0, 4, 20, 24>>

edges_short == <<2, 3, 5, 9, 10, 14, 15, 19, 21, 22, 23>>
edges == <<1, 2, 3, 5, 9, 10, 14, 15, 19, 21, 22, 23>>

center == <<6, 7, 8, 11, 12, 13, 16, 17, 18>>

\* sum(position_counts[p] for p in cells)
RECURSIVE CategoryCount(_, _)
CategoryCount(counts, cells) ==
    IF cells = <<>> THEN 0
    ELSE counts[Head(cells)] + CategoryCount(counts, Tail(cells))

\* position_counts[p] raises KeyError for a cell p outside the grid
CategoryMissing(counts, cells) == \E k \in DOMAIN cells : cells[k] \notin DOMAIN counts

CountBefore_descending(counts, a, b) ==
    counts[a] > counts[b] \/ (counts[a] = counts[b] /\ a < b)
\* the order of sorted(position_counts.items(), key=lambda x: x[1]): by
\* count, and by cell index among equal counts, the sort being stable and
\* the dict being filled in ascending cell order
CountBefore(counts, a, b) ==
    counts[a] < counts[b] \/ (counts[a] = counts[b] /\ a < b)

\* the cells of sorted_positions
sorted_positions(counts, grid_size) ==
    SortSeq([k \in 1 .. grid_size |-> k - 1], LAMBDA a, b : CountBefore(counts, a, b))

\* sorted_positions[:5]
FirstFive(s) == SubSeq(s, 1, IF Len(s) < 5 THEN Len(s) ELSE 5)

\* sorted_positions[-5:]
LastFive(s) == SubSeq(s, IF Len(s) < 5 THEN 1 ELSE Len(s) - 4, Len(s))

\* the cell of a category list that position_counts lacks: indexing it
\* raises KeyError
CategoriesMissing(counts) ==
    \/ CategoryMissing(counts, corners)
    \/ CategoryMissing(counts, edges)
    \/ CategoryMissing(counts, center)

\* the dict returned by analyze_mine_positions, game_stats.py 217-245
analyze_mine_positions_body(rounds, grid_size) ==
    LET counts == position_counts(rounds, grid_size)
        total_mines == TotalMines(rounds, grid_size)
        sorted == sorted_positions(counts, grid_size)
    IN  Returned("analyze_mine_positions",
          [grid_size |-> grid_size,
           mine_count_analyzed |-> total_mines,
           corner_mine_rate |->
               IF total_mines > 0
               THEN Rate(CategoryCount(counts, corners), total_mines) ELSE 0,
           edge_mine_rate |->
               IF total_mines > 0
               THEN Rate(CategoryCount(counts, edges), total_mines) ELSE 0,
           center_mine_rate |->
               IF total_mines > 0
               THEN Rate(CategoryCount(counts, center), total_mines) ELSE 0,
           position_frequency |->
               [cell \in DOMAIN counts |-> PositionFrequency(counts[cell], total_mines)],
           safest_positions |-> FirstFive(sorted),
           riskiest_positions |-> LastFive(sorted)],
          IF total_mines > 0 THEN grid_size + 3 ELSE 0)

\* without the `if total_mines > 0 else 0` guards every rate divides by
\* total_mines
analyze_mine_positions_unguarded(rounds, grid_size) ==
    IF TotalMines(rounds, grid_size) = 0
    THEN Raised("analyze_mine_positions", "ZeroDivisionError")
    ELSE IF CategoriesMissing(position_counts(rounds, grid_size))
         THEN Raised("analyze_mine_positions", "KeyError")
         ELSE analyze_mine_positions_body(rounds, grid_size)

\* GridGameCalculator.analyze_mine_positions, game_stats.py 201-245: the
\* category sums are evaluated only when total_mines > 0
analyze_mine_positions(rounds, grid_size) ==
    IF /\ TotalMines(rounds, grid_size) > 0
       /\ CategoriesMissing(position_counts(rounds, grid_size))
    THEN Raised("analyze_mine_positions", "KeyError")
    ELSE analyze_mine_positions_body(rounds, grid_size)

(***************************************************************************)
(* Towers floors: analyze_towers_floors, game_stats.py 290-358.            *)
(***************************************************************************)
\* r.get('floor_reached', r.get('steps', 0))
FloorReached(r) == Get(r, "floor_reached", Get(r, "steps", 0))

\* floors = [r.get('floor_reached', r.get('steps', 0)) for r in rounds]
floors(rounds) == [i \in DOMAIN rounds |-> FloorReached(rounds[i])]

ReachedFloor_exactly(reached_floors, floor) ==
    Len(SelectSeq(reached_floors, LAMBDA f : f = floor))
\* sum(1 for f in floors if f >= floor)
ReachedFloor(reached_floors, floor) ==
    Len(SelectSeq(reached_floors, LAMBDA f : f >= floor))

\* floor_rates, in hundredths of a percent
floor_rates(rounds, max_floors) ==
    [floor \in 1 .. max_floors |->
        Rate(ReachedFloor(floors(rounds), floor), Len(rounds))]

\* all_choices: the 'choices' lists of all rounds, concatenated
RECURSIVE all_choices(_)
all_choices(rounds) ==
    IF rounds = <<>> THEN <<>>
    ELSE Get(Head(rounds), "choices", <<>>) \o all_choices(Tail(rounds))

\* all_results: the 'choice_results' lists of all rounds, concatenated
RECURSIVE all_results(_)
all_results(rounds) ==
    IF rounds = <<>> THEN <<>>
    ELSE Get(Head(rounds), "choice_results", <<>>) \o all_results(Tail(rounds))

\* zip(all_choices, all_results): as long as the shorter of the two
Zip(cs, rs) ==
    [i \in 1 .. (IF Len(cs) < Len(rs) THEN Len(cs) ELSE Len(rs)) |-> <<cs[i], rs[i]>>]

\* sum(1 for c, r in zip(all_choices, all_results) if c == label and r)
ChoiceWins(rounds, label) ==
    Len(SelectSeq(Zip(all_choices(rounds), all_results(rounds)),
                  LAMBDA p : p[1] = label /\ p[2]))

\* sum(1 for c in all_choices if c == label)
ChoiceTotal(rounds, label) ==
    Len(SelectSeq(all_choices(rounds), LAMBDA c : c = label))

\* round(wins / total * 100, 2) if total > 0 else 33.33
ChoiceSuccessRate(rounds, label) ==
    IF ChoiceTotal(rounds, label) > 0
    THEN Rate(ChoiceWins(rounds, label), ChoiceTotal(rounds, label))
    ELSE 3333

RECURSIVE Pow(_, _)
Pow(b, e) == IF e = 0 THEN 1 ELSE b * Pow(b, e - 1)

\* success_rate * base_mult in ten-thousandths, as the fraction num/den:
\* success_rate is rate / 100 and base_mult is 1.5 ** floor after `floor`
\* multiplications by 1.5
FloorValue(rate, floor) == [num |-> rate * Pow(3, floor), den |-> Pow(2, floor)]

\* the floors whose exact value lies half way between two ten-thousandths
\* while success_rate is not a double (rate / 10000 is one iff 625 divides
\* rate): round(.., 4) then goes by the representation error
FloorFloatTies(rates) ==
    {floor \in DOMAIN rates :
        /\ IsTie(FloorValue(rates[floor], floor).num, FloorValue(rates[floor], floor).den)
        /\ rates[floor] % 625 # 0}

\* the float ties of a call: an empty collection returns before any rate
\* is computed
TowerFloatTies(rounds, max_floors) ==
    IF rounds = <<>> THEN {} ELSE FloorFloatTies(floor_rates(rounds, max_floors))

\* ev_per_floor[floor] = round(success_rate * base_mult, 4), in
\* ten-thousandths
ev_per_floor(rates, tieUp) ==
    [floor \in DOMAIN rates |->
        LET v == FloorValue(rates[floor], floor)
        IN  IF floor \in FloorFloatTies(rates)
            THEN RoundDiv(v.num, v.den, floor \in tieUp)
            ELSE RoundHalfEven(v.num, v.den)]

FirstMax_last(d) ==
    CHOOSE k \in DOMAIN d : \A j \in DOMAIN d : d[j] <= d[k] /\ (j > k => d[j] < d[k])
\* max(d.items(), key=lambda x: x[1])[0]: the first key in insertion
\* (ascending) order among those with the largest value
FirstMax(d) ==
    CHOOSE k \in DOMAIN d : \A j \in DOMAIN d : d[j] <= d[k] /\ (j < k => d[j] < d[k])

\* the choice rates fall back to 33.33 as they do for non-empty input
TowersZero_defaultRates ==
    [total_rounds |-> 0, max_floor_reached |-> 0, avg_floor_reached |-> 0,
     floor_success_rates |-> <<>>, left_success_rate |-> 3333,
     middle_success_rate |-> 3333, right_success_rate |-> 3333,
     recommended_stop_floor |-> 3, expected_value_per_floor |-> <<>>]
\* the result for an empty collection, game_stats.py 296-307
TowersZero ==
    [total_rounds |-> 0, max_floor_reached |-> 0, avg_floor_reached |-> 0,
     floor_success_rates |-> <<>>, left_success_rate |-> 0,
     middle_success_rate |-> 0, right_success_rate |-> 0,
     recommended_stop_floor |-> 3, expected_value_per_floor |-> <<>>]

\* GridGameCalculator.analyze_towers_floors, game_stats.py 290-358
analyze_towers_floors(rounds, max_floors, tieUp) ==
    IF rounds = <<>> THEN Returned("analyze_towers_floors", TowersZero, 0)
    ELSE
        LET rates == floor_rates(rounds, max_floors)
            ev == ev_per_floor(rates, tieUp)
        IN  Returned("analyze_towers_floors",
              [total_rounds |-> Len(rounds),
               max_floor_reached |-> SeqMax(floors(rounds)),
               avg_floor_reached |-> Mean2(floors(rounds)),
               floor_success_rates |-> rates,
               left_success_rate |-> ChoiceSuccessRate(rounds, "left"),
               middle_success_rate |-> ChoiceSuccessRate(rounds, "middle"),
               right_success_rate |-> ChoiceSuccessRate(rounds, "right"),
               recommended_stop_floor |-> IF DOMAIN ev # {} THEN FirstMax(ev) ELSE 3,
               expected_value_per_floor |-> ev],
              0)

(***************************************************************************)
(* Chicken Road lanes: analyze_chicken_road_lanes, game_stats.py 360-411.  *)
(***************************************************************************)
\* r.get('lanes_crossed', r.get('distance', 0))
LanesCrossed(r) == Get(r, "lanes_crossed", Get(r, "distance", 0))

\* distances = [r.get('lanes_crossed', r.get('distance', 0)) for r in rounds]
distances(rounds) == [i \in DOMAIN rounds |-> LanesCrossed(rounds[i])]

\* sum(1 for d in distances if d >= lane)
ReachedLane(crossed, lane) == Len(SelectSeq(crossed, LAMBDA d : d >= lane))

\* lane_rates, in hundredths of a percent
lane_rates(rounds, total_lanes) ==
    [lane \in 1 .. total_lanes |->
        Rate(ReachedLane(distances(rounds), lane), Len(rounds))]

(***************************************************************************)
(* IEEE 754 doubles of the lane rates.  A double 0 <= x < 2^20 with at     *)
(* most 60 fractional bits is the tuple <<x0, x1, x2, x3>> of its integer  *)
(* part and three limbs of 20 fractional bits each:                        *)
(*   x = x0 + x1 / 2^20 + x2 / 2^40 + x3 / 2^60.                           *)
(***************************************************************************)
Limb == Pow(2, 20)

\* floor(log2(n)) for n >= 1
RECURSIVE Log2(_)
Log2(n) == IF n <= 1 THEN 0 ELSE 1 + Log2(n \div 2)

\* the exponent of the leading bit of x # 0
Exponent(x) ==
    IF x[1] > 0 THEN Log2(x[1])
    ELSE IF x[2] > 0 THEN Log2(x[2]) - 20
    ELSE IF x[3] > 0 THEN Log2(x[3]) - 40
    ELSE Log2(x[4]) - 60

\* x plus `c` units of the last limb, carries propagated
Carry(x, c) ==
    LET s4 == x[4] + c
        s3 == x[3] + s4 \div Limb
        s2 == x[2] + s3 \div Limb
    IN  <<x[1] + s2 \div Limb, s2 % Limb, s3 % Limb, s4 % Limb>>

\* x, followed by a non-zero tail below the last limb iff `sticky`, rounded
\* to 53 significant bits, ties to even
Round53(x, sticky) ==
    IF x = <<0, 0, 0, 0>> THEN x
    ELSE LET k == Exponent(x) + 8          \* bits of the last limb to drop
         IN  IF k <= 0 THEN x
             ELSE LET unit == Pow(2, k)
                      low == x[4] % unit
                      odd == (x[4] \div unit) % 2 = 1
                      up == \/ 2 * low > unit
                            \/ 2 * low = unit /\ (sticky \/ odd)
                  IN  Carry(<<x[1], x[2], x[3], x[4] - low>>, IF up THEN unit ELSE 0)

\* the double nearest to rate / 100, rate in hundredths: what round(.., 2)
\* returns
Double(rate) ==
    LET n1 == (rate % 100) * Limb
        n2 == (n1 % 100) * Limb
        n3 == (n2 % 100) * Limb
    IN  Round53(<<rate \div 100, n1 \div 100, n2 \div 100, n3 \div 100>>, n3 % 100 # 0)

\* x - y for doubles x >= y, rounded to a double
FloatSub(x, y) ==
    LET d4 == x[4] - y[4]
        b4 == IF d4 < 0 THEN 1 ELSE 0
        d3 == x[3] - y[3] - b4
        b3 == IF d3 < 0 THEN 1 ELSE 0
        d2 == x[2] - y[2] - b3
        b2 == IF d2 < 0 THEN 1 ELSE 0
    IN  Round53(<<x[1] - y[1] - b2, d2 + b2 * Limb, d3 + b3 * Limb, d4 + b4 * Limb>>,
                FALSE)

\* x < y for doubles
FloatLess(x, y) ==
    \E i \in 1 .. 4 : x[i] < y[i] /\ \A j \in 1 .. (i - 1) : x[j] = y[j]

\* danger_drops[lane] = lane_rates.get(lane - 1, 0) - lane_rates.get(lane, 0)
\* for lane in range(2, total_lanes + 1): a difference of two doubles
danger_drops(rates) ==
    [lane \in (DOMAIN rates) \ {1} |->
        FloatSub(Double(rates[lane - 1]), Double(rates[lane]))]

\* max(danger_drops.items(), key=lambda x: x[1])[0] if danger_drops else 1:
\* the first lane among those with the largest drop
most_dangerous(drops) ==
    IF DOMAIN drops = {} THEN 1
    ELSE CHOOSE k \in DOMAIN drops :
            \A j \in DOMAIN drops :
                /\ ~FloatLess(drops[k], drops[j])
                /\ j < k => FloatLess(drops[j], drops[k])

safest_largest(drops) ==
    IF DOMAIN drops = {} THEN 1
    ELSE CHOOSE k \in DOMAIN drops :
            \A j \in DOMAIN drops :
                /\ ~FloatLess(drops[k], drops[j])
                /\ j < k => FloatLess(drops[j], drops[k])
\* min(danger_drops.items(), key=lambda x: x[1])[0] if danger_drops else 1:
\* the first lane among those with the smallest drop
safest(drops) ==
    IF DOMAIN drops = {} THEN 1
    ELSE CHOOSE k \in DOMAIN drops :
            \A j \in DOMAIN drops :
                /\ ~FloatLess(drops[j], drops[k])
                /\ j < k => FloatLess(drops[k], drops[j])

\* the result for an empty collection, game_stats.py 366-376
LanesZero ==
    [total_rounds |-> 0, avg_distance |-> 0, max_distance |-> 0,
     lane_success_rates |-> <<>>, most_dangerous_lane |-> 1, safest_lane |-> 1,
     caught_early_rate |-> 0, completed_rate |-> 0]

\* GridGameCalculator.analyze_chicken_road_lanes, game_stats.py 360-411
analyze_chicken_road_lanes(rounds, total_lanes) ==
    IF rounds = <<>> THEN Returned("analyze_chicken_road_lanes", LanesZero, 0)
    ELSE
        LET crossed == distances(rounds)
            rates == lane_rates(rounds, total_lanes)
            drops == danger_drops(rates)
        IN  Returned("analyze_chicken_road_lanes",
              [total_rounds |-> Len(rounds),
               avg_distance |-> Mean2(crossed),
               max_distance |-> SeqMax(crossed),
               lane_success_rates |-> rates,
               most_dangerous_lane |-> most_dangerous(drops),
               safest_lane |-> safest(drops),
               caught_early_rate |->
                   Rate(Len(SelectSeq(crossed, LAMBDA d : d <= 3)), Len(rounds)),
               completed_rate |->
                   Rate(Len(SelectSeq(crossed, LAMBDA d : d >= total_lanes)), Len(rounds))],
              0)

(***************************************************************************)
(* Statistics service: GridGameStatsService, game_stats.py 418-486.        *)
(*                                                                         *)
(* get_statistics fetches the rounds of the period from the database and   *)
(* passes them to the calculator; the rows fetched are an input here.  The *)
(* fields game, period and generated_at of the result are copied from the  *)
(* service and the clock and are not modelled.                             *)
(***************************************************************************)
\* Python's None in an Optional field of GridGameStatistics, lines 136-138
None == [kind |-> "None"]

\* the game-specific field that get_statistics fills, game_stats.py 469-474
ServiceBranch_default(game_type) ==
    IF game_type = "mines" THEN "position_heatmap"
    ELSE IF game_type = "towers" THEN "floor_analysis"
    ELSE IF game_type = "chickenroad" THEN "lane_analysis"
    ELSE "position_heatmap"

\* the game-specific field that get_statistics fills, game_stats.py 469-474
ServiceBranch(game_type) ==
    IF game_type = "mines" THEN "position_heatmap"
    ELSE IF game_type = "towers" THEN "floor_analysis"
    ELSE IF game_type = "chickenroad" THEN "lane_analysis"
    ELSE "none"

\* GridGameStatsService.get_statistics, game_stats.py 450-486; an exception
\* of an analysis propagates to the caller
get_statistics(game_type, rounds, tieUp) ==
    LET tile_analysis == analyze_tiles(rounds)
        risk_comparison == analyze_risk_levels(rounds)
        branch == ServiceBranch(game_type)
        specific ==
            IF branch = "position_heatmap" THEN analyze_mine_positions(rounds, 25)
            ELSE IF branch = "floor_analysis" THEN analyze_towers_floors(rounds, 10, tieUp)
            ELSE IF branch = "lane_analysis" THEN analyze_chicken_road_lanes(rounds, 10)
            ELSE Returned("none", None, 0)
        Field(name) == IF branch = name THEN specific.value ELSE None
    IN  IF tile_analysis.raised # "" THEN Raised("get_statistics", tile_analysis.raised)
        ELSE IF risk_comparison.raised # ""
        THEN Raised("get_statistics", risk_comparison.raised)
        ELSE IF specific.raised # "" THEN Raised("get_statistics", specific.raised)
        ELSE Returned("get_statistics",
               [game_type |-> game_type,
                tile_analysis |-> tile_analysis.value,
                risk_level_comparison |-> risk_comparison.value,
                position_heatmap |-> Field("position_heatmap"),
                floor_analysis |-> Field("floor_analysis"),
                lane_analysis |-> Field("lane_analysis")],
               0)

(***************************************************************************)
(* Requests and the state machine.                                         *)
(***************************************************************************)
NoResponse == [status |-> 0]

\* a dict without keys
EmptyRound == [k \in {} |-> 0]

\* rounds that differ in their step count and in how the outcome is recorded
TileRounds ==
    {s @@ w : s \in {EmptyRound, [tiles_opened |-> 3], [tiles_opened |-> 4],
                      [tiles_opened |-> 8], [steps |-> 7],
                      [tiles_opened |-> 1, steps |-> 8]},
              w \in {[is_win |-> TRUE], [is_win |-> FALSE], [cashout |-> TRUE]}}

\* rounds that differ in their risk level and in their outcome
RiskRounds ==
    {l @@ o : l \in {EmptyRound, [risk_level |-> "easy"], [risk_level |-> "hard"],
                      [risk_level |-> "EASY"], [risk_level |-> "insane"]},
              o \in {[is_win |-> TRUE, multiplier |-> 500, tiles_opened |-> 4],
                      [is_win |-> FALSE, multiplier |-> 0, tiles_opened |-> 1],
                      [cashout |-> TRUE]}}

\* the round collections of at most MaxRounds rounds
Collections(rounds) == UNION {[1 .. n -> rounds] : n \in 0 .. MaxRounds}

\* rounds that differ in their mine positions; cell 25 and cell -1 lie
\* outside the default grid
MineRounds ==
    {EmptyRound} \cup
    {[mine_positions |-> m] :
        m \in {<<0>>, <<1>>, <<12>>, <<25>>, <<-1>>, <<0, 12>>, <<0, 0>>, <<1, 25>>}}

\* rounds that differ in the floor reached and in the choices recorded; in
\* the last three the two lists of a round differ in length
TowerRounds ==
    {EmptyRound, [floor_reached |-> 1], [floor_reached |-> 4],
     [floor_reached |-> 1, steps |-> 3],
     [steps |-> 3, choices |-> <<"middle">>, choice_results |-> <<FALSE>>],
     [floor_reached |-> 1, choices |-> <<"right">>, choice_results |-> <<TRUE>>],
     [floor_reached |-> 2, choices |-> <<"left", "right">>,
      choice_results |-> <<TRUE, FALSE>>],
     [choices |-> <<"left">>, choice_results |-> <<>>],
     [floor_reached |-> 1, choices |-> <<"left", "left">>, choice_results |-> <<TRUE>>],
     [floor_reached |-> 1, choices |-> <<"left">>, choice_results |-> <<TRUE, FALSE>>]}

\* rounds that differ in the lanes crossed
LaneRounds ==
    {EmptyRound, [lanes_crossed |-> 1], [lanes_crossed |-> 2], [lanes_crossed |-> 3],
     [lanes_crossed |-> 4], [distance |-> 2], [lanes_crossed |-> 1, distance |-> 4]}

\* n rounds that crossed d lanes
Crossed(n, d) == [i \in 1 .. n |-> [lanes_crossed |-> d]]

\* 100 rounds with lane success rates 90, 85, 40, 38 for lanes 1 to 4
RatesExample ==
    Crossed(10, 0) \o Crossed(5, 1) \o Crossed(45, 2) \o Crossed(2, 3) \o Crossed(38, 4)

\* 7 rounds with lane success rates 71.43, 57.14, 14.29, 0: one seventh
\* of the rounds ends at lane 1 and one seventh at lane 3
SeventhsExample ==
    Crossed(2, 0) \o Crossed(1, 1) \o Crossed(3, 2) \o Crossed(1, 3)

\* rows of the rounds table as the three games record them
StatRounds ==
    {EmptyRound,
     [risk_level |-> "easy", is_win |-> TRUE, multiplier |-> 500, tiles_opened |-> 4,
      mine_positions |-> <<0, 12>>],
     [risk_level |-> "hard", is_win |-> FALSE, floor_reached |-> 2,
      choices |-> <<"left", "right">>, choice_results |-> <<TRUE, FALSE>>],
     [cashout |-> TRUE, lanes_crossed |-> 2, steps |-> 2]}

(***************************************************************************)
(* Data collector: MinesCollector, collector/mines_collector.py.           *)
(*                                                                         *)
(* Message handling.  Playwright delivers every WebSocket frame to         *)
(* _process_websocket_message, which runs synchronously from entry to      *)
(* return; a handler schedules save_round with asyncio.create_task, and    *)
(* the scheduled coroutines run later, each in its own turn of the event   *)
(* loop.  A message is a dict, a multiplier an integer number of           *)
(* hundredths.  The messages of the model carry their fields at the top    *)
(* level, so the nested lookups of the _extract_ helpers find nothing.     *)
(***************************************************************************)
MaxMessages == 3

START_MESSAGE_TYPES == {"game_start", "start", "new_game", "begin", "init"}
REVEAL_MESSAGE_TYPES == {"reveal", "tile_revealed", "cell_opened", "click", "open"}
CASHOUT_MESSAGE_TYPES == {"cashout", "cash_out", "collect", "withdraw", "claim"}
HISTORY_MESSAGE_TYPES == {"history", "game_history", "past_games", "recent_games"}

MINE_COUNT_FIELDS == <<"mines", "minesCount", "mine_count", "mineCount", "numMines">>
GEMS_FIELDS == <<"gems", "gemsRevealed", "gems_revealed", "revealed", "safe_tiles">>
MULTIPLIER_FIELDS == <<"multiplier", "payout", "cashout", "coefficient", "odds">>
ROUND_ID_FIELDS ==
    <<"roundId", "gameId", "id", "round", "roundNumber", "gameNumber", "sessionId">>

\* the positions of the fields of the list that the dict has
Present(data, fields) == {i \in DOMAIN fields : fields[i] \in DOMAIN data}

\* the value of the first field of the list that the dict has, else the
\* default: `_extract_x(data) or default` for a value that is not falsy
Extract(data, fields, default) ==
    IF Present(data, fields) = {} THEN default
    ELSE LET first == CHOOSE i \in Present(data, fields) :
                          \A j \in Present(data, fields) : i <= j
         IN  data[fields[first]]

\* str.lower on the message types of the model
LowerType(t) == IF t = "Cashout" THEN "cashout" ELSE t

\* the handler parse_ws_message dispatches to, mines_collector.py 381-415
HandlerOf(data) ==
    LET fields == <<"type", "t", "action", "event", "messageType", "cmd">>
        msg_type == LowerType(Extract(data, fields, ""))
    IN  IF msg_type \in START_MESSAGE_TYPES THEN "_handle_game_start"
        ELSE IF msg_type \in REVEAL_MESSAGE_TYPES THEN "_handle_tile_reveal"
        ELSE IF msg_type \in CASHOUT_MESSAGE_TYPES THEN "_handle_cashout"
        ELSE IF msg_type \in HISTORY_MESSAGE_TYPES THEN "_handle_history"
        ELSE "none"

\* the ids _generate_round_id returns, one per call: a hash of the time of
\* the call
GeneratedIds == <<"g1", "g2", "g3", "g4", "g5", "g6">>

\* a coroutine save_round(...) created by the handler `by` and not yet run;
\* once it has run, outcome is what it returned or raised, existed tells
\* whether its round_id was stored when it reached the database, and
\* counted whether it incremented rounds_collected
Task(by, round_id, mines_count, gems_revealed, cashout_multiplier, won) ==
    [by |-> by, round_id |-> round_id, mines_count |-> mines_count,
     gems_revealed |-> gems_revealed, cashout_multiplier |-> cashout_multiplier,
     won |-> won, outcome |-> "pending", existed |-> FALSE, counted |-> FALSE]

\* 0 is falsy: `_extract_mine_count(data) or 3`
MineCountOf(data) ==
    IF Extract(data, MINE_COUNT_FIELDS, 0) = 0 THEN 3
    ELSE Extract(data, MINE_COUNT_FIELDS, 0)

\* is_gem of _handle_tile_reveal, mines_collector.py 449
IsGem(data) ==
    \/ Get(data, "isGem", FALSE)
    \/ Get(data, "gem", FALSE)
    \/ Get(data, "result", "") = "gem"

\* the task _handle_cashout creates, lines 482-492; 0.0 is falsy:
\* `_extract_multiplier(data) or 1.0`
CashoutTask(game, data) ==
    Task("_handle_cashout", game.id, game.mine_count, game.gems_revealed,
         IF Extract(data, MULTIPLIER_FIELDS, 0) = 0 THEN 100
         ELSE Extract(data, MULTIPLIER_FIELDS, 0),
         TRUE)

\* an idle cashout saves a round of default values
handle_cashout_idleSaves(game, data) ==
    IF game = None
    THEN [current_game |-> None, tasks |-> <<Task("_handle_cashout", "", 3, 0, 100, TRUE)>>]
    ELSE [current_game |-> None, tasks |-> <<CashoutTask(game, data)>>]
\* _handle_cashout, mines_collector.py 471-494: current_game after the
\* message and the tasks created
handle_cashout(game, data) ==
    IF game = None THEN [current_game |-> game, tasks |-> <<>>]
    ELSE [current_game |-> None, tasks |-> <<CashoutTask(game, data)>>]

\* _handle_tile_reveal, mines_collector.py 437-469: current_game after the
\* message and the tasks created.  For position 0 stands for None, as a
\* position 0 is falsy and gives None in line 450.
handle_tile_reveal(game, data) ==
    LET position == IF Get(data, "position", 0) # 0 THEN data.position
                    ELSE IF Get(data, "cell", 0) # 0 THEN data.cell
                    ELSE Get(data, "index", 0)
    IN  IF game = None THEN [current_game |-> game, tasks |-> <<>>]
        ELSE IF IsGem(data)
        THEN [current_game |->
                 [game EXCEPT !.gems_revealed = @ + 1,
                              !.reveals = IF position # 0 THEN Append(@, position)
                                          ELSE @],
              tasks |-> <<>>]
        ELSE [current_game |-> None,
              tasks |-> <<Task("_handle_tile_reveal", game.id, game.mine_count,
                               game.gems_revealed, 0, FALSE)>>]

\* the task _handle_history creates for one game, lines 505-520
HistoryTask(game, fresh) ==
    LET multiplier == Extract(game, MULTIPLIER_FIELDS, 0)
    IN  Task("_handle_history",
             Extract(game, ROUND_ID_FIELDS, fresh),
             MineCountOf(game),
             Extract(game, GEMS_FIELDS, 0),
             multiplier,
             Get(game, "won", FALSE) \/ Get(game, "cashed_out", FALSE)
                 \/ multiplier > 0)

\* games = data.get("games") or data.get("history") or []
GamesOf(data) ==
    IF Get(data, "games", <<>>) # <<>> THEN data.games ELSE Get(data, "history", <<>>)

\* the parameter checks of save_round, mines_collector.py 246-256
ValidRound(t) ==
    /\ t.mines_count >= 1 /\ t.mines_count <= 24
    /\ t.gems_revealed >= 0 /\ t.gems_revealed <= 24
    /\ t.cashout_multiplier >= 0

\* round_id TEXT UNIQUE: a row with this round_id is stored
Stored(table, round_id) == \E row \in table : row.round_id = round_id

\* INSERT OR IGNORE INTO mines_rounds, lines 260-265: a row that would
\* violate the UNIQUE constraint is skipped without an error
InsertOrIgnore(table, row) ==
    IF Stored(table, row.round_id) THEN table ELSE table \cup {row}

\* the frames the game server sends: starts with and without a round id
\* and a mine count, reveals of a gem and of a mine, cashouts, histories,
\* and frames of no handled type
Messages ==
    {[type |-> "start"] @@ i @@ m :
        i \in {EmptyRound, [roundId |-> "r1"]}, m \in {EmptyRound, [mines |-> 30]}}
        \cup {[type |-> "reveal", isGem |-> TRUE, position |-> 7],
              [type |-> "click", result |-> "gem"],
              [type |-> "reveal", isGem |-> FALSE]}
        \cup {[type |-> "Cashout"], [action |-> "collect", multiplier |-> 250]}
        \cup {[type |-> "history",
               games |-> <<[roundId |-> "r1", mines |-> 3, gems |-> 2,
                            multiplier |-> 150]>>],
              [type |-> "history",
               history |-> <<[id |-> "r2", gems |-> 1, won |-> FALSE],
                             [id |-> "r2", gems |-> 30]>>]}
        \cup {[type |-> "ping"], [balance |-> 5]}

\* MinesCollector.__init__, mines_collector.py 159-180, and an empty
\* mines_rounds table after init_db
CollectorInit ==
    /\ current_game = None
    /\ rounds_collected = 0
    /\ mines_rounds = {}
    /\ scheduled = <<>>
    /\ messages = <<>>
    /\ generated = 0

\* MinesCollector.__init__, mines_collector.py 159-180: the collector
\* before run() is called, with the default max_retries
NoRun ==
    /\ running = FALSE
    /\ max_retries = 5
    /\ mode = "none"
    /\ pc = "idle"
    /\ retry_count = 0
    /\ failing = FALSE
    /\ attempts = <<>>
    /\ sessions = 0
    /\ stopped_live = FALSE
    /\ outcome = ""

\* the calculator session before any call: GridGameCalculator has no
\* __init__ and no attributes (game_stats.py 145-146)
NoSession ==
    /\ calculator = EmptyRound
    /\ collections = <<>>
    /\ history = <<>>
    /\ rounding = {}

\* The calls of the model.  mines runs over the valid range and ExtraMines
\* values on each side of it; grid_size is no cell, fewer cells than the
\* 5x5 layout, the default, or more; max_floors is no floor, one floor,
\* five floors or the default; total_lanes is no lane, one lane, two,
\* four, five or the default; game_type is one of the three grid games,
\* one of them in another spelling, or another game.
Requests ==
    [op : {"get_payout_table"}, via : {"http", "direct"},
     mines : (1 - ExtraMines) .. (24 + ExtraMines)]
        \cup [op : {"calculator"},
              rounds : Collections(TileRounds) \cup Collections(RiskRounds)]
        \cup [op : {"heatmap"}, rounds : Collections(MineRounds),
              grid_size : {0, 4, 25, 26}]
        \cup [op : {"towers"}, rounds : Collections(TowerRounds),
              max_floors : {0, 1, 5, 10}]
        \cup [op : {"lanes"},
              rounds : Collections(LaneRounds) \cup {RatesExample, SeventhsExample},
              total_lanes : {0, 1, 2, 4, 5, 10}]
        \cup [op : {"get_statistics"},
              game_type : {"mines", "towers", "chickenroad", "Mines", "plinko"},
              rounds : Collections(StatRounds)]

Init ==
    /\ request \in Requests
    /\ response = NoResponse
    /\ NoSession
    /\ CollectorInit
    /\ NoRun

\* GET /api/payout-table, or a direct call of the handler
GetPayoutTable ==
    /\ request.op = "get_payout_table"
    /\ response = NoResponse
    /\ \E tieUp \in SUBSET FloatTies(request.mines) :
          response' =
              IF request.via = "http" /\ ~QueryMinesValid(request.mines)
              THEN Http422("query parameter mines out of range")
              ELSE get_payout_table(request.mines, tieUp)
    /\ UNCHANGED <<request, sessionVars, collectorVars, runVars>>

\* a call of GridGameCalculator.analyze_tiles
AnalyzeTiles ==
    /\ request.op = "calculator"
    /\ response = NoResponse
    /\ response' = analyze_tiles(request.rounds)
    /\ UNCHANGED <<request, sessionVars, collectorVars, runVars>>

\* a call of GridGameCalculator.analyze_risk_levels
AnalyzeRiskLevels ==
    /\ request.op = "calculator"
    /\ response = NoResponse
    /\ response' = analyze_risk_levels(request.rounds)
    /\ UNCHANGED <<request, sessionVars, collectorVars, runVars>>

\* a call of GridGameCalculator.analyze_mine_positions
AnalyzeMinePositions ==
    /\ request.op = "heatmap"
    /\ response = NoResponse
    /\ response' = analyze_mine_positions(request.rounds, request.grid_size)
    /\ UNCHANGED <<request, sessionVars, collectorVars, runVars>>

\* a call of GridGameCalculator.analyze_towers_floors
AnalyzeTowersFloors ==
    /\ request.op = "towers"
    /\ response = NoResponse
    /\ \E tieUp \in SUBSET TowerFloatTies(request.rounds, request.max_floors) :
          response' = analyze_towers_floors(request.rounds, request.max_floors, tieUp)
    /\ UNCHANGED <<request, sessionVars, collectorVars, runVars>>

\* a call of GridGameCalculator.analyze_chicken_road_lanes
AnalyzeChickenRoadLanes ==
    /\ request.op = "lanes"
    /\ response = NoResponse
    /\ response' = analyze_chicken_road_lanes(request.rounds, request.total_lanes)
    /\ UNCHANGED <<request, sessionVars, collectorVars, runVars>>

\* a call of GridGameStatsService.get_statistics
GetStatistics ==
    /\ request.op = "get_statistics"
    /\ response = NoResponse
    /\ \E tieUp \in SUBSET TowerFloatTies(request.rounds, 10) :
          response' = get_statistics(request.game_type, request.rounds, tieUp)
    /\ UNCHANGED <<request, sessionVars, collectorVars, runVars>>

Next ==
    \/ GetPayoutTable
    \/ AnalyzeTiles
    \/ AnalyzeRiskLevels
    \/ AnalyzeMinePositions
    \/ AnalyzeTowersFloors
    \/ AnalyzeChickenRoadLanes
    \/ GetStatistics

Spec == Init /\ [][Next]_vars

(***************************************************************************)
(* A session of calls on one calculator: GridGameCalculator, game_stats.py *)
(* 145-411.  The caller holds several round collections, two of them equal *)
(* in value, and calls the analyses in any order.  The methods are         *)
(* synchronous, so a call runs from entry to return without interleaving.  *)
(***************************************************************************)
MaxCalls == 2

\* the collections the caller holds; the first two are equal, and in the
\* third one round in three reaches floor 1, a float tie of the towers
\* analysis
SessionCollections ==
    LET mines == [risk_level |-> "easy", is_win |-> TRUE, multiplier |-> 500,
                  tiles_opened |-> 4, mine_positions |-> <<0, 12>>]
        towers == [risk_level |-> "hard", is_win |-> FALSE, floor_reached |-> 2,
                   choices |-> <<"left", "right">>, choice_results |-> <<TRUE, FALSE>>]
        lanes == [cashout |-> TRUE, lanes_crossed |-> 2]
    IN  <<(<<mines, towers>>), (<<mines, towers>>), (<<lanes, towers, lanes>>), (<<>>)>>

\* the analyses and their second argument (0 where there is none)
Analyses ==
    [method : {"analyze_tiles", "analyze_risk_levels"}, param : {0}]
        \cup [method : {"analyze_mine_positions"}, param : {4, 25}]
        \cup [method : {"analyze_towers_floors"}, param : {5, 10}]
        \cup [method : {"analyze_chicken_road_lanes"}, param : {4, 10}]

\* the floors that round up in a call: the doubles are a function of the
\* rate and the floor
TieUpOf(rounds, max_floors, up) ==
    {f \in TowerFloatTies(rounds, max_floors) :
        <<floor_rates(rounds, max_floors)[f], f>> \in up}

\* the caller's collection after a call that consumed its argument
RoundsAfter_consumed(method, rounds) ==
    IF method = "analyze_towers_floors" THEN <<>> ELSE rounds

\* the caller's collection after a call: the methods read the rounds with
\* r.get and iterate over the lists; they assign to no element of `rounds`
\* and to no key of a round (game_stats.py 148-411)
RoundsAfter(method, rounds) == rounds

SessionInit ==
    /\ request = [op |-> "session"]
    /\ response = NoResponse
    /\ calculator = EmptyRound
    /\ collections = SessionCollections
    /\ history = <<>>
    /\ rounding \in SUBSET UNION
          {{<<floor_rates(SessionCollections[i], m)[f], f>> :
               f \in TowerFloatTies(SessionCollections[i], m)} :
           i \in DOMAIN SessionCollections, m \in {5, 10}}
    /\ CollectorInit
    /\ NoRun

\* one call of an analysis on a collection the caller holds: the entry
\* added to history holds the collection before and after the call and
\* the value returned or the exception raised
Call ==
    \E i \in DOMAIN collections, a \in Analyses :
        /\ Len(history) < MaxCalls
        /\ history' = Append(history,
              [method |-> a.method, param |-> a.param, index |-> i,
               rounds_before |-> collections[i],
               rounds_after |-> RoundsAfter(a.method, collections[i]),
               result |->
                   IF a.method = "analyze_tiles" THEN analyze_tiles(collections[i])
                   ELSE IF a.method = "analyze_risk_levels"
                   THEN analyze_risk_levels(collections[i])
                   ELSE IF a.method = "analyze_mine_positions"
                   THEN analyze_mine_positions(collections[i], a.param)
                   ELSE IF a.method = "analyze_towers_floors"
                   THEN analyze_towers_floors(collections[i], a.param,
                            TieUpOf(collections[i], a.param, rounding))
                   ELSE analyze_chicken_road_lanes(collections[i], a.param)])
        /\ collections' =
              [collections EXCEPT ![i] = RoundsAfter(a.method, collections[i])]
        /\ UNCHANGED <<request, response, calculator, rounding, collectorVars, runVars>>

SessionSpec == SessionInit /\ [][Call]_vars

(***************************************************************************)
(* Message handling of the collector: the actions.                         *)
(***************************************************************************)
\* the frame `data` arrives and parse_ws_message dispatches it
Receive(data, handler) ==
    /\ Len(messages) < MaxMessages
    /\ HandlerOf(data) = handler
    /\ messages' = Append(messages, data)

\* _handle_game_start, mines_collector.py 417-435
HandleGameStart ==
    \E data \in Messages :
        /\ Receive(data, "_handle_game_start")
        /\ current_game' =
              [id |-> Extract(data, ROUND_ID_FIELDS, GeneratedIds[generated + 1]),
               mine_count |-> MineCountOf(data),
               gems_revealed |-> 0,
               reveals |-> <<>>]
        /\ generated' = IF Present(data, ROUND_ID_FIELDS) = {} THEN generated + 1
                        ELSE generated
        /\ UNCHANGED <<rounds_collected, mines_rounds, scheduled>>
        /\ UNCHANGED <<request, response, sessionVars, runVars>>

\* _handle_tile_reveal, mines_collector.py 437-469
HandleTileReveal ==
    \E data \in Messages :
        /\ Receive(data, "_handle_tile_reveal")
        /\ current_game' = handle_tile_reveal(current_game, data).current_game
        /\ scheduled' = scheduled \o handle_tile_reveal(current_game, data).tasks
        /\ UNCHANGED <<rounds_collected, mines_rounds, generated>>
        /\ UNCHANGED <<request, response, sessionVars, runVars>>

\* _handle_cashout, mines_collector.py 471-494
HandleCashout ==
    \E data \in Messages :
        /\ Receive(data, "_handle_cashout")
        /\ current_game' = handle_cashout(current_game, data).current_game
        /\ scheduled' = scheduled \o handle_cashout(current_game, data).tasks
        /\ UNCHANGED <<rounds_collected, mines_rounds, generated>>
        /\ UNCHANGED <<request, response, sessionVars, runVars>>

\* _handle_history, mines_collector.py 496-520; the games of the model
\* carry their round id
HandleHistory ==
    \E data \in Messages :
        /\ Receive(data, "_handle_history")
        /\ scheduled' = scheduled \o
              [k \in DOMAIN GamesOf(data) |-> HistoryTask(GamesOf(data)[k], "")]
        /\ UNCHANGED <<current_game, rounds_collected, mines_rounds, generated>>
        /\ UNCHANGED <<request, response, sessionVars, runVars>>

\* a frame that parse_ws_message dispatches to no handler, lines 396-415
IgnoreMessage ==
    \E data \in Messages :
        /\ Receive(data, "none")
        /\ UNCHANGED <<current_game, rounds_collected, mines_rounds, scheduled,
                       generated>>
        /\ UNCHANGED <<request, response, sessionVars, runVars>>

\* the event loop runs a scheduled save_round, mines_collector.py 221-279.
\* The database may fail at execute or at commit (aiosqlite.Error): then
\* nothing is stored and the call returns False.
SaveRound ==
    \E k \in DOMAIN scheduled, dbError \in BOOLEAN :
        /\ scheduled[k].outcome = "pending"
        /\ IF ~ValidRound(scheduled[k])
           THEN /\ scheduled' = [scheduled EXCEPT ![k].outcome = "ValueError"]
                /\ UNCHANGED <<mines_rounds, rounds_collected>>
           ELSE IF dbError
           THEN /\ scheduled' =
                      [scheduled EXCEPT
                          ![k].outcome = "False",
                          ![k].existed = Stored(mines_rounds, scheduled[k].round_id)]
                /\ UNCHANGED <<mines_rounds, rounds_collected>>
           ELSE /\ mines_rounds' =
                      InsertOrIgnore(mines_rounds,
                          [round_id |-> scheduled[k].round_id,
                           mines_count |-> scheduled[k].mines_count,
                           gems_revealed |-> scheduled[k].gems_revealed,
                           cashout_multiplier |-> scheduled[k].cashout_multiplier,
                           won |-> scheduled[k].won])
                /\ rounds_collected' = rounds_collected + 1
                /\ scheduled' =
                      [scheduled EXCEPT
                          ![k].outcome = "True",
                          ![k].existed = Stored(mines_rounds, scheduled[k].round_id),
                          ![k].counted = TRUE]
        /\ UNCHANGED <<current_game, messages, generated>>
        /\ UNCHANGED <<request, response, sessionVars, runVars>>

MessageInit ==
    /\ request = [op |-> "collector"]
    /\ response = NoResponse
    /\ NoSession
    /\ CollectorInit
    /\ NoRun

MessageNext ==
    \/ HandleGameStart
    \/ HandleTileReveal
    \/ HandleCashout
    \/ HandleHistory
    \/ IgnoreMessage
    \/ SaveRound

MessageSpec == MessageInit /\ [][MessageNext]_vars

(***************************************************************************)
(* The collection loop: MinesCollector.run, collect_with_playwright and    *)
(* stop, mines_collector.py 281-345 and 723-774.                           *)
(*                                                                         *)
(* run() is a coroutine: it runs without interruption from one await to    *)
(* the next, and while it is suspended in an await the event loop may run  *)
(* other code, which may call stop().  pc names the await in which run()   *)
(* is suspended; an action is the completion of that await together with   *)
(* the code that runs up to the next await.  Every awaited call of the     *)
(* database and of Playwright either returns or raises.                    *)
(*   attempts      the page loads that succeeded ("loaded") and the        *)
(*                 passes of the loop that ended in an exception           *)
(*                 ("failed"), in order                                    *)
(*   sessions      the number of calls of chromium.launch                  *)
(*   stopped_live  stop() was called while collect_with_playwright ran     *)
(*   failing       an exception is propagating through the clean-up        *)
(***************************************************************************)
RetryLimit == 3

RetriesLeft_inclusive(count, limit) == count <= limit
\* retry_count < self.max_retries, lines 298 and 339
RetriesLeft(count, limit) == count < limit

\* run() ends: `finally: self.running = False`, mines_collector.py 760-764
Finished(result) ==
    /\ pc' = "done"
    /\ outcome' = result
    /\ running' = FALSE

\* the loop condition of line 298, evaluated with running as it is now,
\* and the code up to the next await
LoopCheck ==
    IF running /\ RetriesLeft(retry_count, max_retries)
    THEN pc' = "start_playwright" /\ UNCHANGED <<running, outcome>>
    ELSE Finished("returned")

\* the handler of the outer try, lines 330-345
Failed ==
    /\ retry_count' = retry_count + 1
    /\ attempts' = Append(attempts, "failed")
    /\ failing' = FALSE
    /\ IF RetriesLeft(retry_count + 1, max_retries)
       THEN pc' = "backoff" /\ UNCHANGED <<running, outcome>>
       ELSE Finished("ConnectionError")

RunInit ==
    /\ request = [op |-> "run"]
    /\ response = NoResponse
    /\ NoSession
    /\ CollectorInit
    /\ running = FALSE
    /\ max_retries \in 0 .. RetryLimit
    /\ mode \in {"test", "live", "none"}
    /\ pc = "idle"
    /\ retry_count = 0
    /\ failing = FALSE
    /\ attempts = <<>>
    /\ sessions = 0
    /\ stopped_live = FALSE
    /\ outcome = ""

\* run() is called and awaits init_db, line 743
Run ==
    /\ pc = "idle"
    /\ pc' = "init_db"
    /\ UNCHANGED <<running, max_retries, mode, retry_count, failing, attempts,
                   sessions, stopped_live, outcome>>
    /\ UNCHANGED <<request, response, sessionVars, collectorVars>>

\* init_db returns or raises DatabaseError; run() sets running and enters
\* the branch of its mode, lines 743-758
InitDb ==
    /\ pc = "init_db"
    /\ \E ok \in BOOLEAN :
          IF ~ok THEN pc' = "done" /\ outcome' = "DatabaseError" /\ UNCHANGED running
          ELSE IF mode = "test" THEN pc' = "generate_test_data" /\ running' = TRUE
                                     /\ UNCHANGED outcome
          ELSE IF mode = "none" THEN Finished("ValueError")
          ELSE IF RetriesLeft(0, max_retries)
          THEN pc' = "start_playwright" /\ running' = TRUE /\ UNCHANGED outcome
          ELSE Finished("returned")
    /\ UNCHANGED <<max_retries, mode, retry_count, failing, attempts, sessions,
                   stopped_live>>
    /\ UNCHANGED <<request, response, sessionVars, collectorVars>>

\* generate_test_data returns, lines 663-721: it catches the errors of its
\* saves and does not read the running flag
GenerateTestData ==
    /\ pc = "generate_test_data"
    /\ Finished("returned")
    /\ UNCHANGED <<max_retries, mode, retry_count, failing, attempts, sessions,
                   stopped_live>>
    /\ UNCHANGED <<request, response, sessionVars, collectorVars>>

\* async_playwright() has started, line 300; chromium.launch is called
StartPlaywright ==
    /\ pc = "start_playwright"
    /\ \E ok \in BOOLEAN :
          IF ok
          THEN /\ pc' = "launch"
               /\ sessions' = sessions + 1
               /\ UNCHANGED <<running, retry_count, failing, attempts, outcome>>
          ELSE Failed /\ UNCHANGED sessions
    /\ UNCHANGED <<max_retries, mode, stopped_live>>
    /\ UNCHANGED <<request, response, sessionVars, collectorVars>>

\* an awaited call of the set-up returns and the next call is made, or it
\* raises and the playwright context is left: chromium.launch (line 301),
\* browser.new_context (302-305), context.new_page and page.on (306-309)
SetUp ==
    /\ pc \in {"launch", "new_context", "new_page"}
    /\ \E ok \in BOOLEAN :
          /\ pc' = IF ~ok THEN "exit_playwright"
                   ELSE IF pc = "launch" THEN "new_context"
                   ELSE IF pc = "new_context" THEN "new_page"
                   ELSE "goto"
          /\ failing' = ~ok
    /\ UNCHANGED <<running, max_retries, mode, retry_count, attempts, sessions,
                   stopped_live, outcome>>
    /\ UNCHANGED <<request, response, sessionVars, collectorVars>>

\* page.goto returns or raises, lines 311-328: after a load retry_count is
\* reset and the monitoring loop is entered while running holds
Goto ==
    /\ pc = "goto"
    /\ \E ok \in BOOLEAN :
          IF ok
          THEN /\ retry_count' = 0
               /\ attempts' = Append(attempts, "loaded")
               /\ pc' = IF running THEN "monitor" ELSE "close"
               /\ UNCHANGED failing
          ELSE /\ pc' = "close"
               /\ failing' = TRUE
               /\ UNCHANGED <<retry_count, attempts>>
    /\ UNCHANGED <<running, max_retries, mode, sessions, stopped_live, outcome>>
    /\ UNCHANGED <<request, response, sessionVars, collectorVars>>

\* asyncio.sleep(1) of the monitoring loop returns, lines 319-320
Monitor ==
    /\ pc = "monitor"
    /\ pc' = IF running THEN "monitor" ELSE "close"
    /\ UNCHANGED <<running, max_retries, mode, retry_count, failing, attempts,
                   sessions, stopped_live, outcome>>
    /\ UNCHANGED <<request, response, sessionVars, collectorVars>>

\* browser.close() of the finally clause returns or raises, lines 326-328
Close ==
    /\ pc = "close"
    /\ \E ok \in BOOLEAN :
          /\ pc' = "exit_playwright"
          /\ failing' = (failing \/ ~ok)
    /\ UNCHANGED <<running, max_retries, mode, retry_count, attempts, sessions,
                   stopped_live, outcome>>
    /\ UNCHANGED <<request, response, sessionVars, collectorVars>>

\* the exit of `async with async_playwright()` returns or raises; an
\* exception goes to the outer handler, otherwise the loop condition is
\* evaluated, lines 298-300 and 330
ExitPlaywright ==
    /\ pc = "exit_playwright"
    /\ \E ok \in BOOLEAN :
          IF failing \/ ~ok THEN Failed
          ELSE LoopCheck /\ UNCHANGED <<retry_count, failing, attempts>>
    /\ UNCHANGED <<max_retries, mode, sessions, stopped_live>>
    /\ UNCHANGED <<request, response, sessionVars, collectorVars>>

\* asyncio.sleep(wait_time) of the backoff returns, line 340
Backoff ==
    /\ pc = "backoff"
    /\ LoopCheck
    /\ UNCHANGED <<max_retries, mode, retry_count, failing, attempts, sessions,
                   stopped_live>>
    /\ UNCHANGED <<request, response, sessionVars, collectorVars>>

\* stop(), lines 766-774, called by other code while run() is suspended
Stop ==
    /\ pc # "done"
    /\ running' = FALSE
    /\ stopped_live' =
          (stopped_live \/ pc \in {"start_playwright", "launch", "new_context",
                                    "new_page", "goto", "monitor", "close",
                                    "exit_playwright", "backoff"})
    /\ UNCHANGED <<max_retries, mode, pc, retry_count, failing, attempts, sessions,
                   outcome>>
    /\ UNCHANGED <<request, response, sessionVars, collectorVars>>

\* the steps of run()
RunStep ==
    \/ Run
    \/ InitDb
    \/ GenerateTestData
    \/ StartPlaywright
    \/ SetUp
    \/ Goto
    \/ Monitor
    \/ Close
    \/ ExitPlaywright
    \/ Backoff

RunNext ==
    \/ Run
    \/ InitDb
    \/ GenerateTestData
    \/ StartPlaywright
    \/ SetUp
    \/ Goto
    \/ Monitor
    \/ Close
    \/ ExitPlaywright
    \/ Backoff
    \/ Stop

RunSpec == RunInit /\ [][RunNext]_vars

\* the event loop resumes a coroutine whose await has completed, and every
\* await of run() completes: the sleeps are finite, page.goto has a
\* timeout of 60 s
RunFairSpec == RunInit /\ [][RunNext]_vars /\ WF_vars(RunStep)

(***************************************************************************)
(* Properties of the Payout Table Generator.                               *)
(***************************************************************************)
IsPayoutResponse == request.op = "get_payout_table" /\ response # NoResponse

PayoutOk == IsPayoutResponse /\ response.status = 200

\* the binomial coefficient C(n, k)
RECURSIVE Choose(_, _)
Choose(n, k) == IF k = 0 THEN 1 ELSE (Choose(n, k - 1) * (n - k + 1)) \div k

\* round(100 * C(25-H, k) / C(25, k), 2), in hundredths of a percent
ExactPercent(H, k) ==
    LET f == Frac(Choose(GridCells - H, k), Choose(GridCells, k))
        s == Scale10000(f.num, f.den)
    IN  IF 2 * s.r > f.den \/ (2 * s.r = f.den /\ s.q % 2 = 1) THEN s.q + 1 ELSE s.q

\* C1: a hazard count outside 1..24 is answered with 422 and no payout
\* entries; every hazard count in 1..24 is answered with a table and no error.
C1_RejectsOutOfRange ==
    IsPayoutResponse =>
        IF request.mines >= 1 /\ request.mines <= 24
        THEN response.status = 200 /\ Len(response.payouts) > 0
        ELSE response.status = 422 /\ response.payouts = <<>>

C1_Witness ==
    /\ IsPayoutResponse
    /\ request.via = "direct"
    /\ request.mines = 25
    /\ response.status = 422
    /\ response.detail = "Mines count must be between 1 and 24"

C3_OneEntryPerK ==
    PayoutOk =>
        /\ Len(response.payouts) = GridCells - request.mines
        /\ \A k \in 1 .. Len(response.payouts) : response.payouts[k].gems = k

C3_Witness ==
    /\ PayoutOk
    /\ request.mines = 24
    /\ Len(response.payouts) = 1
    /\ response.payouts[1].gems = 1

\* C4 as stated: the reported probability of consecutive entries strictly
\* decreases.
C4_StrictlyDecreasing ==
    PayoutOk =>
        \A k \in 1 .. (Len(response.payouts) - 1) :
            response.payouts[k + 1].probability < response.payouts[k].probability

\* C4 amended: the reported probability never increases, and two consecutive
\* entries are equal only when both are reported as 0.00.
C4_DecreasingUntilZero ==
    PayoutOk =>
        \A k \in 1 .. (Len(response.payouts) - 1) :
            \/ response.payouts[k + 1].probability < response.payouts[k].probability
            \/ /\ response.payouts[k + 1].probability = 0
               /\ response.payouts[k].probability = 0

C4_Witness ==
    /\ PayoutOk
    /\ request.mines = 12
    /\ response.payouts[10].probability = 1
    /\ response.payouts[12].probability = 0
    /\ response.payouts[13].probability = 0

\* C5: the multiplier of consecutive entries strictly increases with k.
C5_MultiplierIncreasing ==
    PayoutOk =>
        \A k \in 1 .. (Len(response.payouts) - 1) :
            response.payouts[k + 1].multiplier > response.payouts[k].multiplier

C5_Witness ==
    /\ PayoutOk
    /\ request.mines = 1
    /\ response.payouts[1].multiplier = 101
    /\ response.payouts[2].multiplier = 105
    /\ response.payouts[15].multiplier = 242

IsTilesResponse ==
    /\ request.op = "calculator"
    /\ response # NoResponse
    /\ response.method = "analyze_tiles"

IsRiskResponse ==
    /\ request.op = "calculator"
    /\ response # NoResponse
    /\ response.method = "analyze_risk_levels"

\* the indices of the rounds that succeeded (is_win, else cashout)
SucceededRounds == {i \in DOMAIN request.rounds : TileIsWin(request.rounds[i])}

\* the percentage, in hundredths, of the rounds of `among` that are in `part`
Share(part, among) == RoundHalfEven(Cardinality(part) * 10000, Cardinality(among))

Abs(x) == IF x < 0 THEN 0 - x ELSE x

\* C7: on a non-empty collection the three cashout rates are the shares of
\* the successful rounds with steps <= 3, 4..7 and >= 8, they add up to 100
\* within one hundredth when a round succeeded, and all are 0 otherwise.
C7_CashoutRatesSum ==
    (IsTilesResponse /\ request.rounds # <<>>) =>
        /\ response.raised = ""
        /\ LET v == response.value
               won == SucceededRounds
               steps(i) == TilesOpened(request.rounds[i])
           IN  IF won # {}
               THEN /\ Abs(v.early_cashout_rate + v.mid_cashout_rate
                           + v.late_cashout_rate - 10000) <= 1
                    /\ v.early_cashout_rate = Share({i \in won : steps(i) <= 3}, won)
                    /\ v.mid_cashout_rate = Share({i \in won : steps(i) \in 4 .. 7}, won)
                    /\ v.late_cashout_rate = Share({i \in won : steps(i) >= 8}, won)
               ELSE /\ v.early_cashout_rate = 0
                    /\ v.mid_cashout_rate = 0
                    /\ v.late_cashout_rate = 0

\* three successful rounds, one per band, next to nothing else: 3 x 33.33
C7_Witness ==
    /\ IsTilesResponse
    /\ Cardinality(SucceededRounds) = 3
    /\ response.value.early_cashout_rate = 3333
    /\ response.value.mid_cashout_rate = 3333
    /\ response.value.late_cashout_rate = 3333
    /\ \E i \in DOMAIN request.rounds : TilesOpened(request.rounds[i]) = 8

\* C8: on the empty collection analyze_tiles returns total_rounds = 0 and
\* every average, maximum and rate equal to 0, raises nothing and divides
\* nothing.
C8_EmptyTiles ==
    (IsTilesResponse /\ request.rounds = <<>>) =>
        /\ response.raised = ""
        /\ response.divisions = 0
        /\ response.value.total_rounds = 0
        /\ \A f \in DOMAIN response.value : response.value[f] = 0
        /\ DOMAIN response.value =
             {"total_rounds", "avg_tiles_opened", "avg_multiplier", "median_tiles",
              "max_tiles_opened", "early_cashout_rate", "mid_cashout_rate",
              "late_cashout_rate", "first_tile_fail_rate", "avg_tiles_before_fail"}

C8_Witness ==
    /\ IsTilesResponse
    /\ request.rounds = <<>>
    /\ response.raised = ""
    /\ response.value.total_rounds = 0

\* the four canonical risk labels
CanonicalLevels == {"easy", "medium", "hard", "extreme"}

\* the rounds of the request whose risk level, read case-insensitively and
\* medium when absent, is `level`
RoundsAt(level) == {i \in DOMAIN request.rounds : LevelOf(request.rounds[i]) = level}

\* the entries of the result that are about `level`
EntriesAt(level) == {k \in DOMAIN response.value : response.value[k].risk_level = level}

EasyWin == [risk_level |-> "easy", is_win |-> TRUE, multiplier |-> 500, tiles_opened |-> 4]

EasyLoss == [risk_level |-> "easy", is_win |-> FALSE, multiplier |-> 0, tiles_opened |-> 1]

HardWin == [risk_level |-> "hard", is_win |-> TRUE, multiplier |-> 500, tiles_opened |-> 4]

\* C9: analyze_risk_levels emits exactly one entry for every canonical
\* bucket that holds a round and none for an empty bucket; [easy win, easy
\* loss, hard win] gives easy (2 rounds, 50 %) and hard (1 round, 100 %).
C9_OneEntryPerNonEmptyBucket ==
    IsRiskResponse =>
        /\ response.raised = ""
        /\ \A k \in DOMAIN response.value :
              /\ response.value[k].risk_level \in CanonicalLevels
              /\ response.value[k].total_rounds > 0
        /\ \A level \in CanonicalLevels :
              Cardinality(EntriesAt(level)) = IF RoundsAt(level) # {} THEN 1 ELSE 0
        /\ request.rounds = <<EasyWin, EasyLoss, HardWin>> =>
              /\ Len(response.value) = 2
              /\ response.value[1].risk_level = "easy"
              /\ response.value[1].total_rounds = 2
              /\ response.value[1].success_rate = 5000
              /\ response.value[2].risk_level = "hard"
              /\ response.value[2].total_rounds = 1
              /\ response.value[2].success_rate = 10000

C9_Witness ==
    /\ IsRiskResponse
    /\ request.rounds = <<EasyWin, EasyLoss, HardWin>>
    /\ Len(response.value) = 2

\* the rounds whose risk level is none of the four canonical labels
UnrecognizedRounds ==
    {i \in DOMAIN request.rounds : LevelOf(request.rounds[i]) \notin CanonicalLevels}

\* total_rounds summed over the first k entries of the result
RECURSIVE BucketTotal(_)
BucketTotal(k) == IF k = 0 THEN 0 ELSE BucketTotal(k - 1) + response.value[k].total_rounds

AbsentLevelRounds == {i \in DOMAIN request.rounds : "risk_level" \notin DOMAIN request.rounds[i]}

\* the rounds of the request whose risk_level key reads `level`, in any case
LabelledRounds(level) ==
    {i \in DOMAIN request.rounds :
        /\ "risk_level" \in DOMAIN request.rounds[i]
        /\ Lower(request.rounds[i].risk_level) = level}

\* the rounds of the request whose risk_level key is none of the four labels
MislabelledRounds ==
    {i \in DOMAIN request.rounds :
        /\ "risk_level" \in DOMAIN request.rounds[i]
        /\ Lower(request.rounds[i].risk_level) \notin CanonicalLevels}

\* total_rounds of the medium entry of the result, 0 when there is none
MediumTotal ==
    IF EntriesAt("medium") = {} THEN 0
    ELSE response.value[CHOOSE k \in EntriesAt("medium") : TRUE].total_rounds

\* C11 as stated: a round without a risk level and a round with an
\* unrecognized one are both counted as medium-risk rounds.
C11_UnrecognizedIsMedium ==
    IsRiskResponse =>
        MediumTotal = Cardinality(AbsentLevelRounds \cup LabelledRounds("medium")
                                  \cup MislabelledRounds)

\* C11 amended: only a round without a risk level defaults to medium; the
\* medium bucket holds the rounds labelled medium and the unlabelled ones,
\* and a round with an unrecognized label is in no bucket at all.
C11_AbsentIsMedium ==
    IsRiskResponse =>
        /\ response.raised = ""
        /\ MediumTotal = Cardinality(AbsentLevelRounds \cup LabelledRounds("medium"))
        /\ \A k \in DOMAIN response.value : response.value[k].risk_level \in CanonicalLevels
        /\ \A level \in CanonicalLevels \ {"medium"} :
              \A k \in EntriesAt(level) :
                  response.value[k].total_rounds = Cardinality(LabelledRounds(level))

C11_Witness ==
    /\ IsRiskResponse
    /\ Cardinality(AbsentLevelRounds) = 1
    /\ Cardinality(MislabelledRounds) = 2
    /\ MediumTotal = 1
    /\ Len(response.value) = 1

(***************************************************************************)
(* Properties of the position heatmap.                                     *)
(***************************************************************************)
IsHeatmapResponse == request.op = "heatmap" /\ response # NoResponse

HeatmapOk == IsHeatmapResponse /\ response.raised = ""

\* the mine positions listed by round i of the request
ListedMines(i) ==
    IF "mine_positions" \in DOMAIN request.rounds[i]
    THEN request.rounds[i].mine_positions
    ELSE <<>>

\* every hazard occurrence of the request: round i, place j in its list
HazardOccurrences ==
    UNION {{<<i, j>> : j \in DOMAIN ListedMines(i)} : i \in DOMAIN request.rounds}

\* the hazard occurrences at `cell`
OccurrencesAt(cell) == {o \in HazardOccurrences : ListedMines(o[1])[o[2]] = cell}

\* the hazard occurrences at a cell of the grid
GridOccurrences ==
    {o \in HazardOccurrences :
        ListedMines(o[1])[o[2]] \in 0 .. (request.grid_size - 1)}

\* C12: position_frequency[i], for every cell i of the grid, is the number
\* of hazard occurrences at i pooled over all rounds as a percentage of all
\* pooled occurrences in the grid (not an average of per-round shares).
C12_PooledFrequency ==
    HeatmapOk =>
        /\ DOMAIN response.value.position_frequency = 0 .. (request.grid_size - 1)
        /\ \A cell \in 0 .. (request.grid_size - 1) :
              response.value.position_frequency[cell] =
                  IF GridOccurrences = {} THEN 0
                  ELSE Share(OccurrencesAt(cell), GridOccurrences)

\* round 1 has its only mine at cell 0 (share 100 %), round 2 has mines at 0
\* and 12 (share 50 %): pooled 2 of 3 = 66.67 %, not the average 75 %
C12_Witness ==
    /\ HeatmapOk
    /\ request.grid_size = 25
    /\ request.rounds = <<[mine_positions |-> <<0>>], [mine_positions |-> <<0, 12>>]>>
    /\ response.value.position_frequency[0] = 6667
    /\ response.value.position_frequency[12] = 3333

\* the cells named by a category list
CellsOf(cells) == {cells[k] : k \in DOMAIN cells}

\* C13: corners, edges and center are pairwise disjoint sets of 4, 12 and 9
\* cells that cover 0..24, and on the 25-cell grid the three rates add up to
\* 100 within one hundredth whenever a hazard occurrence was counted.
C13_PartitionRatesSum ==
    /\ Cardinality(CellsOf(corners)) = 4 /\ Len(corners) = 4
    /\ Cardinality(CellsOf(edges)) = 12 /\ Len(edges) = 12
    /\ Cardinality(CellsOf(center)) = 9 /\ Len(center) = 9
    /\ CellsOf(corners) \cap CellsOf(edges) = {}
    /\ CellsOf(corners) \cap CellsOf(center) = {}
    /\ CellsOf(edges) \cap CellsOf(center) = {}
    /\ CellsOf(corners) \cup CellsOf(edges) \cup CellsOf(center) = 0 .. 24
    /\ (IsHeatmapResponse /\ request.grid_size = 25 /\ GridOccurrences # {}) =>
          /\ response.raised = ""
          /\ response.value.mine_count_analyzed = Cardinality(GridOccurrences)
          /\ Abs(response.value.corner_mine_rate + response.value.edge_mine_rate
                 + response.value.center_mine_rate - 10000) <= 1

C13_Witness ==
    /\ HeatmapOk
    /\ request.grid_size = 25
    /\ response.value.mine_count_analyzed = 3
    /\ response.value.corner_mine_rate = 3333
    /\ response.value.edge_mine_rate = 3333
    /\ response.value.center_mine_rate = 3333

\* the number of hazard occurrences at each cell of the grid
HazardCounts ==
    [cell \in 0 .. (request.grid_size - 1) |-> Cardinality(OccurrencesAt(cell))]

\* cell a comes before cell b when ordered by hazard count, then by index
FewerHazards(count, a, b) ==
    count[a] < count[b] \/ (count[a] = count[b] /\ a < b)

\* C14: safest_positions are the 5 cells (all cells of a smaller grid) that
\* come first by (count, index), riskiest_positions the 5 that come last,
\* both listed in that order; so no riskiest cell has a lower count than a
\* safest cell.
C14_SafestAndRiskiest ==
    HeatmapOk =>
        LET cells == 0 .. (request.grid_size - 1)
            k == IF request.grid_size < 5 THEN request.grid_size ELSE 5
            safestCells == response.value.safest_positions
            riskiestCells == response.value.riskiest_positions
        IN  \A count \in {HazardCounts} :
            /\ Len(safestCells) = k /\ Len(riskiestCells) = k
            /\ \A j \in 1 .. k : safestCells[j] \in cells /\ riskiestCells[j] \in cells
            /\ \A i, j \in 1 .. k :
                  i < j => /\ FewerHazards(count, safestCells[i], safestCells[j])
                           /\ FewerHazards(count, riskiestCells[i], riskiestCells[j])
            /\ \A c \in cells \ CellsOf(safestCells) :
                  \A j \in 1 .. k : FewerHazards(count, safestCells[j], c)
            /\ \A c \in cells \ CellsOf(riskiestCells) :
                  \A j \in 1 .. k : FewerHazards(count, c, riskiestCells[j])
            /\ \A i, j \in 1 .. k : count[riskiestCells[i]] >= count[safestCells[j]]

C14_Witness ==
    /\ HeatmapOk
    /\ request.grid_size = 25
    /\ Cardinality(OccurrencesAt(12)) = 2
    /\ Cardinality(OccurrencesAt(0)) = 1
    /\ response.value.safest_positions = <<1, 2, 3, 4, 5>>
    /\ response.value.riskiest_positions = <<22, 23, 24, 0, 12>>

\* C15: with no hazard occurrence to count, analyze_mine_positions returns
\* without error, every frequency and the three rates are 0, and the two
\* lists are the first and the last cells in index order (empty on an empty
\* grid).
C15_NoHazards ==
    (IsHeatmapResponse /\ GridOccurrences = {}) =>
        /\ response.raised = ""
        /\ response.divisions = 0
        /\ response.value.mine_count_analyzed = 0
        /\ \A cell \in 0 .. (request.grid_size - 1) :
              response.value.position_frequency[cell] = 0
        /\ response.value.corner_mine_rate = 0
        /\ response.value.edge_mine_rate = 0
        /\ response.value.center_mine_rate = 0
        /\ LET n == request.grid_size
               k == IF n < 5 THEN n ELSE 5
           IN  /\ response.value.safest_positions = [j \in 1 .. k |-> j - 1]
               /\ response.value.riskiest_positions = [j \in 1 .. k |-> n - k + j - 1]

C15_Witness ==
    /\ HeatmapOk
    /\ request.rounds = <<>>
    /\ request.grid_size = 25
    /\ response.value.safest_positions = <<0, 1, 2, 3, 4>>
    /\ response.value.riskiest_positions = <<20, 21, 22, 23, 24>>

(***************************************************************************)
(* Properties of the Towers and Chicken Road analyses.                     *)
(***************************************************************************)
IsTowersResponse == request.op = "towers" /\ response # NoResponse

IsLanesResponse == request.op = "lanes" /\ response # NoResponse

\* the sequence `rates` has one entry for each of 1..n and never increases
NonIncreasing(rates, n) ==
    /\ DOMAIN rates = 1 .. n
    /\ \A i \in 1 .. (n - 1) : rates[i + 1] <= rates[i]

\* C16: for a non-empty round collection and any configured maximum,
\* floor_success_rates and lane_success_rates have one entry per floor or
\* lane and never increase from one index to the next.
C16_RatesNonIncreasing ==
    /\ (IsTowersResponse /\ request.rounds # <<>>) =>
          NonIncreasing(response.value.floor_success_rates, request.max_floors)
    /\ (IsLanesResponse /\ request.rounds # <<>>) =>
          NonIncreasing(response.value.lane_success_rates, request.total_lanes)

\* three rounds that reached floors 1, 2 and 4
C16_Witness ==
    /\ IsTowersResponse
    /\ request.max_floors = 5
    /\ response.value.floor_success_rates = <<10000, 6667, 3333, 3333, 0>>

\* the (choice, outcome) pairs of the request with the given label: round i,
\* index j present in both lists of that round
ChoicePairs(label) ==
    {p \in UNION {{<<i, j>> : j \in DOMAIN Get(request.rounds[i], "choices", <<>>)
                                     \cap DOMAIN Get(request.rounds[i], "choice_results", <<>>)} :
                  i \in DOMAIN request.rounds} :
        request.rounds[p[1]].choices[p[2]] = label}

\* the pairs whose outcome is a win
WonPairs(pairs) == {p \in pairs : request.rounds[p[1]].choice_results[p[2]]}

\* the win rate among the pairs; nothing is required without a pair
PairedRate(label, reported) ==
    ChoicePairs(label) # {} => reported = Share(WonPairs(ChoicePairs(label)), ChoicePairs(label))

\* C17: the success rate reported for left, middle and right is the win
\* rate among the (choice, outcome) pairs with that label, each pair joining
\* a choice with the outcome at the same index of the same round, also when
\* the two lists of a round differ in length.
C17_PairedChoiceRates ==
    (IsTowersResponse /\ request.rounds # <<>>) =>
        /\ PairedRate("left", response.value.left_success_rate)
        /\ PairedRate("middle", response.value.middle_success_rate)
        /\ PairedRate("right", response.value.right_success_rate)

\* C18: for non-empty input every expected_value_per_floor entry is the
\* floor success rate / 100 times 1.5^floor rounded to 4 decimals, and
\* recommended_stop_floor is the floor in 1..max_floors with the largest
\* entry, the lowest such floor when several share the maximum.
C18_RecommendedStopFloor ==
    (IsTowersResponse /\ request.rounds # <<>> /\ request.max_floors >= 1) =>
        LET ev == response.value.expected_value_per_floor
            rates == response.value.floor_success_rates
            stop == response.value.recommended_stop_floor
        IN  /\ DOMAIN ev = 1 .. request.max_floors
            /\ \A f \in DOMAIN ev :
                  2 * Abs(ev[f] * Pow(2, f) - rates[f] * Pow(3, f)) <= Pow(2, f)
            /\ stop \in DOMAIN ev
            /\ \A f \in DOMAIN ev : ev[f] <= ev[stop]
            /\ \A f \in DOMAIN ev : f < stop => ev[f] < ev[stop]

\* no round reached floor 1: all ten entries are 0 and the first floor wins
C18_Witness ==
    /\ IsTowersResponse
    /\ request.rounds # <<>>
    /\ request.max_floors = 10
    /\ \A f \in 1 .. 10 : response.value.expected_value_per_floor[f] = 0
    /\ response.value.recommended_stop_floor = 1

\* the lane success rates of the response start with 90, 85, 40, 38
RatesAsInExample ==
    /\ IsLanesResponse
    /\ request.rounds # <<>>
    /\ request.total_lanes >= 4
    /\ SubSeq(response.value.lane_success_rates, 1, 4) = <<9000, 8500, 4000, 3800>>

ReportedDrop(lane) ==
    response.value.lane_success_rates[lane - 1] - response.value.lane_success_rates[lane]

C20_DropOrder ==
    (IsLanesResponse /\ request.rounds # <<>>) =>
        LET lanes == 2 .. request.total_lanes
            worst == response.value.most_dangerous_lane
            best == response.value.safest_lane
        IN  IF lanes = {} THEN worst = 1 /\ best = 1
            ELSE /\ worst \in lanes /\ best \in lanes
                 /\ \A l \in lanes :
                       /\ ReportedDrop(l) <= ReportedDrop(worst)
                       /\ l < worst => ReportedDrop(l) < ReportedDrop(worst)
                       /\ ReportedDrop(l) >= ReportedDrop(best)
                       /\ l < best => ReportedDrop(l) > ReportedDrop(best)

\* C21: on an empty round collection analyze_towers_floors returns without
\* error with every numeric field 0, no per-floor entry and
\* recommended_stop_floor 3, and analyze_chicken_road_lanes returns without
\* error with every numeric field 0, no per-lane entry and both lane
\* indices 1, whatever max_floors or total_lanes is.
C21_EmptyTowersAndLanes ==
    /\ (IsTowersResponse /\ request.rounds = <<>>) =>
          /\ response.raised = ""
          /\ response.value.total_rounds = 0
          /\ response.value.max_floor_reached = 0
          /\ response.value.avg_floor_reached = 0
          /\ response.value.left_success_rate = 0
          /\ response.value.middle_success_rate = 0
          /\ response.value.right_success_rate = 0
          /\ DOMAIN response.value.floor_success_rates = {}
          /\ DOMAIN response.value.expected_value_per_floor = {}
          /\ response.value.recommended_stop_floor = 3
    /\ (IsLanesResponse /\ request.rounds = <<>>) =>
          /\ response.raised = ""
          /\ response.value.total_rounds = 0
          /\ response.value.avg_distance = 0
          /\ response.value.max_distance = 0
          /\ response.value.caught_early_rate = 0
          /\ response.value.completed_rate = 0
          /\ DOMAIN response.value.lane_success_rates = {}
          /\ response.value.most_dangerous_lane = 1
          /\ response.value.safest_lane = 1

\* the empty collection analysed with the default of ten floors
C21_Witness ==
    /\ IsTowersResponse
    /\ request.rounds = <<>>
    /\ request.max_floors = 10
    /\ response.raised = ""
    /\ response.value.recommended_stop_floor = 3

\* the wins counted by the entry e of the risk-level comparison
EntryWins(e) == RoundHalfEven(e.success_rate * e.total_rounds, 10000)

\* C29: when every round carries a recognized risk level, the rounds that
\* analyze_tiles treats as wins (is_win, else cashout) are as many as the
\* wins counted over all analyze_risk_levels buckets.
C29_SameWinClassification ==
    (/\ IsRiskResponse
     /\ \A i \in DOMAIN request.rounds :
           /\ "risk_level" \in DOMAIN request.rounds[i]
           /\ LevelOf(request.rounds[i]) \in CanonicalLevels) =>
        /\ response.raised = ""
        /\ SeqSum([k \in DOMAIN response.value |-> EntryWins(response.value[k])])
              = Cardinality(SucceededRounds)

\* C30: for every grid_size and round collection analyze_mine_positions
\* returns without raising, counts no position outside [0, grid_size), and
\* reports as mine_count_analyzed the sum of the per-cell counts.
C30_AnyGridSize ==
    IsHeatmapResponse =>
        /\ response.raised = ""
        /\ response.value.mine_count_analyzed = Cardinality(GridOccurrences)
        /\ DOMAIN response.value.position_frequency = 0 .. (request.grid_size - 1)
        /\ \A cell \in 0 .. (request.grid_size - 1) :
              response.value.position_frequency[cell] =
                  IF GridOccurrences = {} THEN 0
                  ELSE Share(OccurrencesAt(cell), GridOccurrences)


(***************************************************************************)
(* Properties of the statistics service.                                   *)
(***************************************************************************)
IsStatisticsResponse == request.op = "get_statistics" /\ response # NoResponse

\* the game-specific fields of a result that are not None
Populated(v) ==
    {f \in {"position_heatmap", "floor_analysis", "lane_analysis"} : v[f] # None}

\* the game-specific field mapped to a game type, if any
MappedFields(game_type) ==
    IF game_type = "mines" THEN {"position_heatmap"}
    ELSE IF game_type = "towers" THEN {"floor_analysis"}
    ELSE IF game_type = "chickenroad" THEN {"lane_analysis"}
    ELSE {}

\* C23: get_statistics always computes the tile analysis and the risk-level
\* comparison and populates at most one game-specific field: exactly the
\* one mapped to the game type mines, towers or chickenroad, none otherwise.
C23_OneGameSpecificBreakdown ==
    IsStatisticsResponse =>
        /\ response.raised = ""
        /\ response.value.tile_analysis = analyze_tiles(request.rounds).value
        /\ response.value.risk_level_comparison
              = analyze_risk_levels(request.rounds).value
        /\ Cardinality(Populated(response.value)) <= 1
        /\ Populated(response.value) = MappedFields(request.game_type)

C23_Witness ==
    /\ IsStatisticsResponse
    /\ request.game_type = "towers"
    /\ Len(request.rounds) = 2
    /\ response.value.floor_analysis.total_rounds = 2
    /\ response.value.tile_analysis.total_rounds = 2
    /\ response.value.position_heatmap = None
    /\ response.value.lane_analysis = None


C24_CountsStoredRounds ==
    /\ rounds_collected = Cardinality(mines_rounds)
    /\ \A k \in DOMAIN scheduled :
          scheduled[k].existed =>
              scheduled[k].outcome = "False" /\ ~scheduled[k].counted

\* the handler that received the k-th frame
HandlerAt(k) == HandlerOf(messages[k])

\* C27: a tile-reveal or cashout frame that arrives while no game is
\* active schedules no save_round and leaves current_game and
\* rounds_collected unchanged.
C27_IdleRevealOrCashout ==
    [][(/\ Len(messages') = Len(messages) + 1
        /\ HandlerOf(messages'[Len(messages')])
              \in {"_handle_tile_reveal", "_handle_cashout"}
        /\ current_game = None) =>
           (/\ scheduled' = scheduled
            /\ current_game' = current_game
            /\ rounds_collected' = rounds_collected)]_vars

\* a cashout arrived before any start, and a second one after the game
\* had ended by cashout
C27_Witness ==
    /\ Len(messages) = MaxMessages
    /\ HandlerAt(1) = "_handle_cashout"
    /\ HandlerAt(2) = "_handle_game_start"
    /\ \A k \in 3 .. Len(messages) : HandlerAt(k) = "_handle_cashout"
    /\ current_game = None
    /\ Len(scheduled) = 1
    /\ scheduled[1].by = "_handle_cashout"

\* the frames that start a game
Starts == {k \in DOMAIN messages : HandlerAt(k) = "_handle_game_start"}

\* the frames after the start k that end its game: a mine hit, a cashout,
\* or the start of the next game
Ends(k) ==
    {j \in (k + 1) .. Len(messages) :
        \/ HandlerAt(j) \in {"_handle_game_start", "_handle_cashout"}
        \/ HandlerAt(j) = "_handle_tile_reveal" /\ ~IsGem(messages[j])}

\* the games that have ended
Ended == {k \in Starts : Ends(k) # {}}

\* the gem reveals received between the start k and the end of its game
Gems(k) ==
    Cardinality({i \in (k + 1) .. Len(messages) :
                    /\ \A j \in Ends(k) : i < j
                    /\ HandlerAt(i) = "_handle_tile_reveal"
                    /\ IsGem(messages[i])})

\* the tasks created for games, in the order of their creation
GameSaves ==
    [n \in 1 .. Cardinality({k \in DOMAIN scheduled : scheduled[k].by # "_handle_history"})
        |-> scheduled[CHOOSE k \in DOMAIN scheduled :
                /\ scheduled[k].by # "_handle_history"
                /\ Cardinality({j \in 1 .. k : scheduled[j].by # "_handle_history"}) = n]]

\* the n-th game that ended
EndedGame(n) == CHOOSE k \in Ended : Cardinality({j \in Ended : j < k}) = n - 1

\* C28: every game that was started and has ended has exactly one
\* scheduled save_round, with gems_revealed the number of gem reveals
\* received since its start; a start that arrives while a game is active
\* ends that game without losing its round.
C28_OneSavePerGame ==
    /\ Len(GameSaves) = Cardinality(Ended)
    /\ \A n \in DOMAIN GameSaves :
          n <= Cardinality(Ended) =>
              GameSaves[n].gems_revealed = Gems(EndedGame(n))


(***************************************************************************)
(* Properties of the collection loop.                                      *)
(***************************************************************************)
\* the failures since the last successful page load
ConsecutiveFailed ==
    Cardinality({k \in DOMAIN attempts :
                    \A j \in k .. Len(attempts) : attempts[j] = "failed"})

\* C25: collect_with_playwright raises ConnectionError exactly when
\* max_retries consecutive attempts have failed: retry_count counts the
\* failures since the last successful page load, which resets it to 0, it
\* never exceeds max_retries, and after the failure that brings it to
\* max_retries no further attempt is made.
C25_ConnectionErrorAfterMaxRetries ==
    mode = "live" =>
        /\ retry_count = ConsecutiveFailed
        /\ retry_count <= max_retries
        /\ outcome = "ConnectionError" <=>
              (ConsecutiveFailed >= 1 /\ ConsecutiveFailed = max_retries)
        /\ (ConsecutiveFailed >= 1 /\ ConsecutiveFailed = max_retries) => pc = "done"

\* a page load succeeded after a failure, and a later failure did not
\* raise
C25_WitnessReset ==
    /\ mode = "live"
    /\ max_retries = 2
    /\ attempts = <<"failed", "loaded", "failed">>
    /\ retry_count = 1
    /\ outcome = "returned"

\* ConnectionError after two failures in a row
C25_Witness ==
    /\ mode = "live"
    /\ max_retries = 2
    /\ attempts = <<"failed", "failed">>
    /\ pc = "done"
    /\ outcome = "ConnectionError"
    /\ sessions = 2

\* C26: after stop() is called during a live collection the loop
\* eventually exits and no browser session is started any more; and when
\* run() has returned or raised, running is False.
C26_GracefulStop ==
    /\ stopped_live ~> pc = "done"
    /\ [][stopped_live => sessions' = sessions]_vars
    /\ [](pc = "done" => ~running)

\* the parts of C26 that hold
C26_LoopExits == stopped_live ~> pc = "done"

C26_RunningFalseAfterRun == pc = "done" => ~running

====
